---- MODULE Spec2Model ----
(***************************************************************************)
(* healthmon: the event reducer (internal/monitor/monitor.go), the restart *)
(* tracker, the heal scanner and the container store                       *)
(* (internal/store/store.go), as a state machine.                          *)
(*                                                                         *)
(* The engine is modelled as a consistent world of containers (an id is    *)
(* created once, names of live containers are unique).  Every engine       *)
(* message is handled by the reducer in one atomic action (the reducer is  *)
(* single threaded); the inspect call made by a handler returns the world's *)
(* identity facets (image, restart policy, started_at) and an arbitrary    *)
(* state/health observation, or fails.  The heal scanner runs as a second  *)
(* task: its snapshot, its per-container query and its write are separate  *)
(* steps that interleave with the reducer.                                 *)
(*                                                                         *)
(* Time is a discrete clock; 0 is the zero time.Time.                      *)
(***************************************************************************)
EXTENDS Integers, Sequences, FiniteSets, TLC

\* ------------------------------------------------------------- bounds
MaxCids == 2
MaxSteps == 2
TrackerSteps == 5
LoopSteps == 3
HealthSteps == 3
RenameSteps == 5
RecreateSteps == 3
CollideSteps == 4
LoadSteps == 1
EmitSteps == 4
FailSteps == 2
FrameSteps == 3
PageSteps == 4
SyncSteps == 4
CastSteps == 3
StopSteps == 2
MigrateSteps == 3
RenameLoopSteps == 7
StreakSteps == 4

\* statements in a migration file (4 and 9 in the two files), scaled
MaxStmts == 2
\* the page size of a list call that asks for none (50), scaled
DefaultLimit == 2
MaxSeeded == 2
\* restart_streak values the properties range over
MaxStreak == 4
MaxTime == 3
\* RESTART_WINDOW_SECONDS and RESTART_THRESHOLD, scaled to the clock
Window == 1
Threshold == 2

ZeroTime == 0
NoCount == 0 - 1

Names == {"a", "b"}
Cids == 1..MaxCids
Images == {"i1", "i2"}
Reasons == {"die", "restart", "oom"}
NoExit == "none"
ExitCodes == {"none", "zero", "nonzero"}
HealthTokens == {"healthy", "unhealthy", "starting"}

VARIABLES
    now,        \* the wall clock
    world,      \* the engine: cid -> [st, name, auto, image, started, created]
    containers, \* the store: name -> row (cache and table, kept equal)
    events,     \* the events table, in id order
    alerts,     \* the alerts table, in id order
    tdata,      \* restartTracker.data: name -> timestamps
    tloop,      \* restartTracker.loop: name -> flag
    heal,       \* the heal task: [snap, cur, hnow]
    steps,      \* engine messages and process stops handled so far
    phase,      \* "boot" before syncExisting has run, then "run"; once the
                \* cancellation token has fired "cancel", "cancel-r" (the reducer
                \* has returned), "cancel-h" (the heal task has), "stopped"
    reply,      \* the answer to the last direct call of the tracker or the store
    wire,       \* a subscriber of the stream: [ev, al], the records it received,
                \* and up: name -> the last update it received under that name
    schema      \* the database file: [applied, versions] and the position of
                \* Migrate in its loop [files, stmt, ret]

vars == <<now, world, containers, events, alerts, tdata, tloop, heal, steps, phase,
          reply, wire, schema>>

\* ------------------------------------------------------------- helpers
maxInt(a, b) == IF a > b THEN a ELSE b

Put(f, k, v) == [x \in (DOMAIN f) \cup {k} |-> IF x = k THEN v ELSE f[x]]

Drop(f, k) == [x \in (DOMAIN f) \ {k} |-> f[x]]

\* minTime: the earlier of two times, a zero time counting as unset
minTime(a, b) ==
    IF a = ZeroTime THEN b ELSE IF b = ZeroTime THEN a ELSE IF a < b THEN a ELSE b

\* ------------------------------------------------------- restart tracker
\* a tracker that forgets nothing
pruneNothing(list, t) == list

\* prune: drop the leading timestamps older than now - window
RECURSIVE prune(_, _)
prune(list, t) ==
    IF list # <<>> /\ Head(list) < t - Window THEN prune(Tail(list), t) ELSE list

\* the list record() stores for the name
recordList(list, ts) == prune(Append(list, ts), ts)

\* a record() that reports every time the threshold is met
recordEnteredMissingFlag(list, flag, ts) == Len(recordList(list, ts)) >= Threshold

\* record()'s second result: the threshold is reached and the flag was not set
recordEntered(list, flag, ts) ==
    Len(recordList(list, ts)) >= Threshold /\ ~flag

\* record()'s loop flag afterwards
recordFlag(list, flag, ts) ==
    flag \/ Len(recordList(list, ts)) >= Threshold

\* ------------------------------------------------------------- the store
NewPk(cs) ==
    LET ids == {cs[n].id : n \in DOMAIN cs}
    IN  IF ids = {} THEN 1 ELSE 1 + (CHOOSE i \in ids : \A j \in ids : j <= i)

\* UpsertContainer: insert or update by name; a zero registered_at is taken
\* from the stored row, else from created_at when that is in the past, else
\* from the clock; started_at and last_event_id kept when the incoming one
\* is zero; present forced true; the surrogate id is the row's.  The row
\* holds last_event_id twice: last is the cache's, lastdb the table's.
upsertLast(has, old, c) == IF c.last = 0 /\ has /\ old > 0 THEN old ELSE c.last

Upsert(cs, n, c) ==
    LET has == n \in DOMAIN cs
        lastId == upsertLast(has, IF has THEN cs[n].last ELSE 0, c)
        row == [c EXCEPT
                  !.last = lastId,
                  !.lastdb = lastId,
                  !.registered = IF c.registered # ZeroTime THEN c.registered
                                 ELSE IF has /\ cs[n].registered # ZeroTime
                                      THEN cs[n].registered
                                 ELSE IF c.created # ZeroTime /\ c.created < now
                                      THEN c.created
                                 ELSE now,
                  !.started = IF c.started = ZeroTime /\ has
                                 THEN cs[n].started ELSE c.started,
                  !.present = TRUE,
                  !.id = IF has THEN cs[n].id ELSE NewPk(cs)]
    IN  Put(cs, n, row)

\* Load: the rows of the containers table, as the cache holds them by name
Load(rows) == [n \in DOMAIN rows |-> [rows[n] EXCEPT !.last = rows[n].lastdb]]

\* a lookup that trusts the name given with the record
TargetsByName(cs, cid, name) ==
    IF name \in DOMAIN cs THEN {name} ELSE {m \in DOMAIN cs : cs[m].cid = cid}

\* GetContainerByContainerID, then GetContainer(name): the rows an emitted
\* record may be attached to (the cache is a map: any row with the id)
Targets(cs, cid, name) ==
    LET byId == {m \in DOMAIN cs : cs[m].cid = cid}
    IN  IF byId # {} THEN byId
        ELSE IF name \in DOMAIN cs THEN {name} ELSE {}

\* the text of a time in a response, by the second it spells; EmptyText is
\* the empty string of a field that was never set
EmptyText == 0 - 1

\* the container part of an EventUpdate, as emitEvent and emitAlertRecord
\* fill it from a stored row
containerResponse(name, c) ==
    [name |-> name, id |-> c.id, cid |-> c.cid, image |-> c.image, status |-> c.status,
     health |-> c.health, hstreak |-> c.hstreak, usince |-> c.usince, loop |-> c.loop,
     streak |-> c.streak, lsince |-> c.lsince, present |-> c.present,
     started |-> c.started, created |-> c.created, registered |-> c.registered]

\* api.ContainerResponse{Name: name, Present: false}
absentResponse(name) ==
    [name |-> name, id |-> 0, cid |-> 0, image |-> "", status |-> "",
     health |-> "", hstreak |-> 0, usince |-> EmptyText, loop |-> FALSE,
     streak |-> 0, lsince |-> EmptyText, present |-> FALSE,
     started |-> EmptyText, created |-> EmptyText, registered |-> EmptyText]

\* api.EventUpdate: event and alert are the ids of the records it carries
\* (0: the field is omitted)
EventUpdate(container, event, alert) ==
    [container |-> container, event |-> event, alert |-> alert]

\* the subscriber's last update under a name
Cast(up, name, update) == [up EXCEPT ![name] = <<update>>]

\* emitEvent + AddEvent: the stores after the record is appended (or dropped);
\* the update carries the cached row as it is after AddEvent
EmitEvent(S, cid, name, type, reason, exit, ts) ==
    IF Targets(S.cs, cid, name) = {} THEN {S}
    ELSE { LET cs2 == [S.cs EXCEPT ![t].last = Len(S.ev) + 1,
                                   ![t].lastdb = Len(S.ev) + 1]
           IN  [S EXCEPT !.ev = Append(@, [id |-> Len(S.ev) + 1, pk |-> S.cs[t].id,
                                           name |-> t, cid |-> cid, type |-> type,
                                           reason |-> reason, exit |-> exit, ts |-> ts]),
                         !.cs = cs2,
                         !.up = Cast(@, t, EventUpdate(containerResponse(t, cs2[t]),
                                                       Len(S.ev) + 1, 0))]
           : t \in Targets(S.cs, cid, name) }

\* emitAlertRecord + AddAlert
EmitAlert(S, cid, name, type, sev, count, exit, ts) ==
    IF Targets(S.cs, cid, name) = {} THEN {S}
    ELSE { [S EXCEPT !.al = Append(@, [id |-> Len(S.al) + 1, pk |-> S.cs[t].id,
                                        name |-> t, cid |-> cid, type |-> type,
                                        sev |-> sev, count |-> count,
                                        exit |-> exit, ts |-> ts]),
                     !.up = Cast(@, t, EventUpdate(containerResponse(t, S.cs[t]),
                                                   0, Len(S.al) + 1))]
           : t \in Targets(S.cs, cid, name) }

\* ------------------------------------------------- the event and alert log
\* A time.Time with its part below the second; the column holds the RFC3339
\* text of it, which has whole seconds only (the text is modelled by the
\* number of seconds it spells).
Time(s, ns) == [s |-> s, ns |-> ns]

formatTime(t) == t.s

parseTime(val) == Time(val, 0)

Null == "NULL"

\* nullStr and the scan of a sql.NullString
nullStr(val) == IF val = "" THEN Null ELSE val

scanStr(col) == IF col = Null THEN "" ELSE col

\* nullIntPtr and the scan of a sql.NullInt64 into *int
nullIntPtr(val) == IF val = NoExit THEN Null ELSE val

scanIntPtr(col) == IF col = Null THEN NoExit ELSE col

\* AddEvent / AddAlert: the INSERT; the id is the next of the table
AddRecord(table, r) ==
    Append(table, [r EXCEPT !.id = Len(table) + 1, !.reason = nullStr(r.reason),
                            !.exit = nullIntPtr(r.exit), !.ts = formatTime(r.ts)])

\* rows.Scan of a list call
scanRecord(row) ==
    [row EXCEPT !.reason = scanStr(row.reason), !.exit = scanIntPtr(row.exit),
                !.ts = parseTime(row.ts)]

\* limit <= 0 means the default page size
pageLimit(limit) == IF limit <= 0 THEN DefaultLimit ELSE limit

\* a cursor that lets the row at the cursor through
atOrBelowCursor(id, beforeID) == beforeID <= 0 \/ id <= beforeID

\* WHERE id < ?, with the greatest int64 for beforeID <= 0
belowCursor(id, beforeID) == beforeID <= 0 \/ id < beforeID

\* ORDER BY id DESC LIMIT k over the rows with the ids given
RECURSIVE newestFirst(_, _, _)
newestFirst(table, ids, k) ==
    IF ids = {} \/ k = 0 THEN <<>>
    ELSE LET top == CHOOSE i \in ids : \A j \in ids : j <= i
         IN  <<scanRecord(table[top])>> \o newestFirst(table, ids \ {top}, k - 1)

ListAllEvents(ev, beforeID, limit) ==
    newestFirst(ev, {i \in DOMAIN ev : belowCursor(ev[i].id, beforeID)}, pageLimit(limit))

ListAllAlerts(al, beforeID, limit) ==
    newestFirst(al, {i \in DOMAIN al : belowCursor(al[i].id, beforeID)}, pageLimit(limit))

\* ListEvents: the events whose container_pk is the id of the container named
ListEvents(cs, ev, container, beforeID, limit) ==
    IF container \notin DOMAIN cs THEN <<>>
    ELSE newestFirst(ev, {i \in DOMAIN ev : /\ ev[i].pk = cs[container].id
                                            /\ belowCursor(ev[i].id, beforeID)},
                     pageLimit(limit))

\* one store operation of a handler, applied to a store S = [cs, ev, al]
Apply(S, op) ==
    CASE op.op = "ev" -> EmitEvent(S, op.cid, op.name, op.type, op.reason, op.exit, op.ts)
      [] op.op = "al" -> EmitAlert(S, op.cid, op.name, op.type, op.sev, op.count, op.exit, op.ts)
      [] op.op = "up" -> {[S EXCEPT !.cs = Upsert(@, op.name, op.row)]}

\* the store operations of a handler, in program order
RECURSIVE Run(_, _)
Run(Ss, ops) ==
    IF ops = <<>> THEN Ss
    ELSE Run(UNION {Apply(S, Head(ops)) : S \in Ss}, Tail(ops))

\* emitInfo
Info(cid, name, type, reason, exit, ts) ==
    [op |-> "ev", cid |-> cid, name |-> name, type |-> type, reason |-> reason,
     exit |-> exit, ts |-> ts]

\* emitAlert / emitAlertRecord
Alert(cid, name, type, sev, count, exit, ts) ==
    [op |-> "al", cid |-> cid, name |-> name, type |-> type, sev |-> sev,
     count |-> count, exit |-> exit, ts |-> ts]

Up(name, row) == [op |-> "up", name |-> name, row |-> row]

\* ------------------------------------------------------------ inspect
Statuses == {"running", "exited"}

\* (health status, failing streak) pairs an inspect may report
HealthObs == {<<"", 0>>, <<"healthy", 0>>, <<"unhealthy", 1>>, <<"starting", 1>>}

FailedInspect ==
    [ok |-> FALSE, cid |-> 0, image |-> "", auto |-> FALSE, started |-> ZeroTime,
     created |-> ZeroTime, status |-> "", health |-> "", hstreak |-> 0]

\* what ContainerInspect may return for container c of engine state w, in an
\* environment E = [steps, fail, statuses, health, reasons, exits]: whether
\* the call may fail, and the states and health observations it may report
Inspects(E, w, c) ==
    (IF E.fail THEN {FailedInspect} ELSE {}) \cup
    { [ok |-> TRUE, cid |-> c, image |-> w[c].image, auto |-> w[c].auto,
       started |-> w[c].started, created |-> w[c].created, status |-> s,
       health |-> h[1], hstreak |-> h[2]]
      : s \in E.statuses, h \in E.health }

inspectToContainer(ins) ==
    [id |-> 0, cid |-> ins.cid, image |-> ins.image, status |-> ins.status,
     health |-> ins.health, hstreak |-> ins.hstreak, usince |-> ZeroTime,
     loop |-> FALSE, streak |-> 0, lsince |-> ZeroTime, present |-> TRUE,
     started |-> ins.started, created |-> ins.created, registered |-> ZeroTime,
     last |-> 0, lastdb |-> 0]

\* a check that takes every inspected container to restart by itself
hasAnyRestartPolicy(ins) == ins.ok

hasAutoRestartPolicy(ins) == ins.auto

\* a check that forgets the restart policy
shouldAlertAnyPolicy(reason, exit, ins) == reason # "oom" /\ exit = "nonzero"

shouldAlertNoRestartPolicyFailure(reason, exit, ins) ==
    ~hasAutoRestartPolicy(ins) /\ reason # "oom" /\ exit = "nonzero"

\* -------------------------------------------------- reducer handlers
\* A handler maps the monitor state M = [cs, ev, al, td, tl] (store rows,
\* events, alerts, tracker data, tracker flags) to the set of states it may
\* leave (the choice is the row a record is attached to when two rows carry
\* the same engine id).

Store(M) == [cs |-> M.cs, ev |-> M.ev, al |-> M.al, up |-> M.up]

Finish(M, td, tl, ops) ==
    { [cs |-> S.cs, ev |-> S.ev, al |-> S.al, td |-> td, tl |-> tl, up |-> S.up]
      : S \in Run({Store(M)}, ops) }

\* restartTracker.reset / markHealed
reset(f, name, empty) == [f EXCEPT ![name] = empty]

\* the alerts of a recreate (CREATED for a known name with another engine id)
recreateAlerts(imageChanged) ==
    IF imageChanged THEN <<"image_changed", "recreated">> ELSE <<"recreated">>

\* a handleCreate that registers every created container anew
createRegisteredAnew(has, old, created, t) == minTime(created, t)

\* handleCreate's registered_at: the stored row's, or for a new name the
\* earlier of the container's creation time and the clock
createRegistered(has, old, created, t) ==
    IF has THEN old ELSE minTime(created, t)

handleCreate(M, name, id, ins, t) ==
    IF ~ins.ok THEN {M}
    ELSE
    LET has == name \in DOMAIN M.cs
        ex == M.cs[name]
        n0 == inspectToContainer(ins)
        n1 == IF has
              THEN [n0 EXCEPT
                      !.registered = createRegistered(TRUE, ex.registered, n0.created, t),
                      !.started = IF n0.started = ZeroTime THEN ex.started ELSE @,
                      !.usince = IF n0.health # "unhealthy" THEN ZeroTime ELSE ex.usince,
                      !.lsince = ex.lsince]
              ELSE [n0 EXCEPT !.registered = createRegistered(FALSE, ZeroTime, n0.created, t)]
        n2 == [n1 EXCEPT !.usince = IF n1.health = "unhealthy" /\ @ = ZeroTime
                                    THEN t ELSE @]
        recreate == has /\ ex.cid # id
        n3 == IF ~recreate THEN n2
              ELSE IF ex.loop
                   THEN [n2 EXCEPT !.loop = TRUE, !.streak = ex.streak,
                                   !.lsince = ex.lsince]
                   ELSE [n2 EXCEPT !.loop = FALSE, !.streak = 0, !.lsince = ZeroTime]
        imageChanged == recreate /\ ex.image # n3.image
        kinds == recreateAlerts(imageChanged)
        ops == (IF recreate
                THEN <<Info(id, name, IF imageChanged THEN "image_changed" ELSE "recreated",
                            "recreate", NoExit, t)>>
                     \o [i \in 1..Len(kinds) |->
                           Alert(id, name, kinds[i], "blue", NoCount, NoExit, t)]
                ELSE <<>>)
               \o <<Up(name, n3), Info(id, name, "created", "create", NoExit, t)>>
    IN  Finish(M,
               IF recreate THEN reset(M.td, name, <<>>) ELSE M.td,
               IF recreate THEN reset(M.tl, name, FALSE) ELSE M.tl,
               ops)

\* a handleStart that takes the loop fields from the inspect snapshot
startLoopLost(auto, has, ex, info) == info

\* handleStart's restart-loop fields: cleared without an auto-restart policy,
\* carried over from the stored row with one
startLoop(auto, has, ex, info) ==
    IF auto /\ has
    THEN [info EXCEPT !.loop = ex.loop, !.streak = ex.streak, !.lsince = ex.lsince]
    ELSE [info EXCEPT !.loop = FALSE, !.streak = 0, !.lsince = ZeroTime]

handleStart(M, name, id, ins, t) ==
    IF ~ins.ok THEN {M}
    ELSE
    LET has == name \in DOMAIN M.cs
        ex == M.cs[name]
        auto == hasAutoRestartPolicy(ins)
        i0 == inspectToContainer(ins)
        i1 == IF has
              THEN [i0 EXCEPT
                      !.registered = ex.registered,
                      !.started = IF i0.started = ZeroTime THEN ex.started ELSE @,
                      !.usince = IF i0.health # "unhealthy" THEN ZeroTime ELSE ex.usince]
              ELSE i0
        i2 == startLoop(auto, has, IF has THEN ex ELSE i0, i1)
        i3 == [i2 EXCEPT
                 !.registered = IF @ = ZeroTime THEN minTime(i2.created, t) ELSE @,
                 !.usince = IF i2.health = "unhealthy" /\ @ = ZeroTime THEN t ELSE @,
                 !.started = IF @ = ZeroTime THEN t ELSE @]
    IN  Finish(M,
               IF auto THEN M.td ELSE reset(M.td, name, <<>>),
               IF auto THEN M.tl ELSE reset(M.tl, name, FALSE),
               <<Up(name, i3), Info(id, name, "started", "start", NoExit, t)>>)

\* the alert handleHealth raises for the status it ends with
healthAlert(status, prevStatus, prevStreak) ==
    CASE status = "unhealthy" /\ prevStatus # "unhealthy" -> <<"unhealthy">>
      [] status = "healthy" /\ (prevStatus = "unhealthy" \/ prevStreak > 0) -> <<"healthy">>
      [] OTHER -> <<>>

healthSeverity(type) == IF type = "unhealthy" THEN "red" ELSE "green"

handleHealth(M, name, id, token, ins, t) ==
    LET has == name \in DOMAIN M.cs
        ex == M.cs[name]
        prevStatus == IF has THEN ex.health ELSE ""
        prevStreak0 == IF has THEN ex.hstreak ELSE 0
        i0 == inspectToContainer(ins)
        i1 == IF has
              THEN [i0 EXCEPT !.registered = ex.registered,
                              !.started = ex.started, !.usince = ex.usince,
                              !.loop = ex.loop, !.streak = ex.streak,
                              !.lsince = ex.lsince]
              ELSE i0
        i2 == [i1 EXCEPT !.usince = IF i1.health = "unhealthy"
                                    THEN (IF @ = ZeroTime THEN t ELSE @)
                                    ELSE ZeroTime,
                         !.registered = IF @ = ZeroTime THEN minTime(i1.created, t) ELSE @]
        e1 == CASE token = "unhealthy" ->
                     [ex EXCEPT !.health = token, !.hstreak = prevStreak0 + 1,
                                !.usince = IF @ = ZeroTime THEN t ELSE @]
                [] token = "healthy" ->
                     [ex EXCEPT !.health = token, !.hstreak = 0, !.usince = ZeroTime]
                [] OTHER -> [ex EXCEPT !.health = token]
        status == IF ins.ok THEN i2.health ELSE token
        prevStreak == IF ins.ok THEN maxInt(prevStreak0, i2.hstreak) ELSE prevStreak0
        kinds == healthAlert(status, prevStatus, prevStreak)
        ops == (IF ins.ok THEN <<Up(name, i2)>>
                ELSE IF has THEN <<Up(name, e1)>> ELSE <<>>)
               \o [i \in 1..Len(kinds) |->
                     Alert(id, name, kinds[i], healthSeverity(kinds[i]), NoCount, NoExit, t)]
    IN  Finish(M, M.td, M.tl, ops)

\* a row the handler reads from the cache right before it writes it back:
\* its last_event_id is the cache's at that moment, which is what Upsert
\* stores for a row that comes with none
asCached(row) == [row EXCEPT !.last = 0, !.lastdb = 0]

\* the stored row a stop or restart writes back when the inspect failed
exitedRow(ex, t) ==
    [ex EXCEPT !.status = "exited",
               !.registered = IF @ = ZeroTime THEN minTime(ex.created, t) ELSE @]

handleStop(M, name, id, exit, ins, t) ==
    LET has == name \in DOMAIN M.cs
        ex == M.cs[name]
        i0 == inspectToContainer(ins)
        i1 == IF has
              THEN [i0 EXCEPT !.registered = ex.registered,
                              !.started = ex.started, !.usince = ex.usince,
                              !.loop = ex.loop, !.streak = ex.streak,
                              !.lsince = ex.lsince]
              ELSE i0
        i2 == [i1 EXCEPT
                 !.usince = IF i1.health # "unhealthy" THEN ZeroTime ELSE @,
                 !.registered = IF @ = ZeroTime THEN minTime(i1.created, t) ELSE @,
                 !.started = IF @ = ZeroTime THEN t ELSE @]
        ops == <<Info(id, name, "stopped", "stop", exit, t)>>
               \o (IF ins.ok
                   THEN <<Up(name, i2)>>
                        \o (IF shouldAlertNoRestartPolicyFailure("stop", exit, ins)
                            THEN <<Alert(id, name, "failure_no_restart", "red",
                                         NoCount, exit, t)>>
                            ELSE <<>>)
                   ELSE IF has THEN <<Up(name, asCached(exitedRow(ex, t)))>>
                   ELSE <<>>)
    IN  Finish(M, M.td, M.tl, ops)

handleSignal(M, name, id, t) ==
    Finish(M, M.td, M.tl, <<Info(id, name, "signal", "signal", NoExit, t)>>)

\* restart_streak written by handleRestartLike's first upsert
\* a streak that only ever counts on while the loop lasts
restartStreakCounting(old, inLoop, enteredLoop, streak) ==
    IF inLoop THEN old + 1 ELSE streak

restartStreak(old, inLoop, enteredLoop, streak) ==
    IF inLoop
    THEN (IF old <= 0 \/ enteredLoop THEN streak ELSE old + 1)
    ELSE streak

\* restart_loop_since next to a restart_loop flag
loopSince(old, inLoop, t) ==
    IF inLoop THEN (IF old = ZeroTime THEN t ELSE old) ELSE ZeroTime

\* inLoop := hasAutoRestart /\ (tracker.inLoop(name) \/ wasInLoop)
inLoopAfter(hasAuto, trackerLoop, wasInLoop) == hasAuto /\ (trackerLoop \/ wasInLoop)

handleRestartLike(M, name, id, reason, exit, ins, t) ==
    LET hasAuto == ins.ok /\ hasAutoRestartPolicy(ins)
        has == name \in DOMAIN M.cs
        wasInLoop == has /\ M.cs[name].loop
        td1 == IF hasAuto THEN [M.td EXCEPT ![name] = recordList(@, t)]
               ELSE reset(M.td, name, <<>>)
        tl1 == IF hasAuto THEN [M.tl EXCEPT ![name] = recordFlag(M.td[name], @, t)]
               ELSE reset(M.tl, name, FALSE)
        streak == IF hasAuto THEN Len(td1[name]) ELSE 0
        enteredLoop == hasAuto /\ recordEntered(M.td[name], M.tl[name], t)
        inLoop == inLoopAfter(hasAuto, tl1[name], wasInLoop)
        \* first write: the cached row with the loop fields
        c1 == [M.cs[name] EXCEPT
                 !.loop = inLoop,
                 !.streak = restartStreak(@, inLoop, enteredLoop, streak),
                 !.lsince = loopSince(@, inLoop, t)]
        cs1 == IF has THEN Upsert(M.cs, name, c1) ELSE M.cs
        ex == cs1[name]
        \* second write: the inspect snapshot
        i0 == inspectToContainer(ins)
        i1 == IF has
              THEN [i0 EXCEPT
                      !.registered = ex.registered,
                      !.started = ex.started,
                      !.usince = IF i0.health # "unhealthy" THEN ZeroTime
                                 ELSE IF ex.usince = ZeroTime THEN t ELSE ex.usince,
                      !.lsince = ex.lsince,
                      !.streak = ex.streak]
              ELSE [i0 EXCEPT !.streak = streak]
        i2 == [i1 EXCEPT
                 !.loop = inLoop,
                 !.lsince = loopSince(@, inLoop, t),
                 !.registered = IF @ = ZeroTime THEN minTime(i1.created, t) ELSE @,
                 !.started = IF @ = ZeroTime THEN t ELSE @]
        ops == <<Info(id, name, "restart", reason, exit, t)>>
               \o (IF has THEN <<Up(name, asCached(c1))>> ELSE <<>>)
               \o (IF reason = "oom"
                   THEN <<Alert(id, name, "oom_killed", "red", NoCount, exit, t)>>
                   ELSE <<>>)
               \o (IF enteredLoop /\ ~wasInLoop
                   THEN <<Alert(id, name, "restart_loop", "red", streak, NoExit, t)>>
                   ELSE <<>>)
               \o (IF ins.ok
                   THEN <<Up(name, i2)>>
                        \o (IF shouldAlertNoRestartPolicyFailure(reason, exit, ins)
                            THEN <<Alert(id, name, "failure_no_restart", "red",
                                         NoCount, exit, t)>>
                            ELSE <<>>)
                   ELSE IF has THEN <<Up(name, asCached(exitedRow(ex, t)))>>
                   ELSE <<>>)
    IN  Finish(M, td1, tl1, ops)

\* latestEventID: SELECT MAX(id) FROM events WHERE container_pk is one of pks
\* (0 when there is none)
latestEventID(ev, pks) ==
    LET ids == {i \in DOMAIN ev : ev[i].pk \in pks}
    IN  IF ids = {} THEN 0 ELSE CHOOSE i \in ids : \A j \in ids : j <= i

\* RenameContainer with the old row o: the fields it takes from the old row
renameInfo(info, oc) ==
    [info EXCEPT !.registered = oc.registered, !.started = oc.started,
                 !.usince = oc.usince, !.lsince = oc.lsince, !.present = TRUE,
                 !.last = oc.last, !.lastdb = oc.last]

\* RenameContainer, old row o found: rename in place, or merge into the row
\* already stored under the new name
RenameFrom(S, o, new, info) ==
    LET oc == S.cs[o]
        inf == renameInfo(info, oc)
    IN  IF new \notin DOMAIN S.cs
        THEN [S EXCEPT
                !.cs = Put(Drop(S.cs, o), new, [inf EXCEPT !.id = oc.id]),
                !.ev = [i \in DOMAIN S.ev |->
                          IF S.ev[i].pk = oc.id
                          THEN [S.ev[i] EXCEPT !.name = new] ELSE S.ev[i]]]
        ELSE LET tc == S.cs[new]
                 latestID == latestEventID(S.ev, {oc.id, tc.id})
                 cs1 == [S.cs EXCEPT
                           ![new] = [inf EXCEPT
                                       !.id = tc.id,
                                       !.last = IF latestID > 0 THEN latestID ELSE tc.last,
                                       !.lastdb = latestID]]
             IN  [S EXCEPT
                    \* the old row: absent; last_event_id zeroed in the cache only
                    !.cs = [cs1 EXCEPT ![o].present = FALSE, ![o].last = 0],
                    !.ev = [i \in DOMAIN S.ev |->
                              IF S.ev[i].pk = oc.id
                              THEN [S.ev[i] EXCEPT !.pk = tc.id, !.name = new]
                              ELSE S.ev[i]]]

RenameContainer(S, old, new, info) ==
    IF old = new THEN {S}
    ELSE LET olds == IF old \in DOMAIN S.cs THEN {old}
                     ELSE {m \in DOMAIN S.cs : S.cs[m].cid = info.cid}
         IN  IF olds = {} THEN {S}
             ELSE {RenameFrom(S, o, new, info) : o \in olds}

\* handleRename: the snapshot under the new name, with the bad state of a row
\* already stored under that name
renameCarry(info, hasTarget, target) ==
    LET i1 == IF hasTarget /\ target.loop
              THEN [info EXCEPT !.loop = TRUE, !.lsince = target.lsince,
                                !.streak = maxInt(@, target.streak)]
              ELSE info
    IN  IF hasTarget /\ target.health = "unhealthy"
        THEN [i1 EXCEPT !.health = target.health,
                        !.hstreak = maxInt(@, target.hstreak),
                        !.usince = target.usince]
        ELSE i1

handleRename(M, old, new, id, ins, t) ==
    IF ~ins.ok THEN {M}
    ELSE
    LET hasTarget == new \in DOMAIN M.cs
        i0 == inspectToContainer(ins)
        i1 == IF old \in DOMAIN M.cs
              THEN [i0 EXCEPT !.registered = M.cs[old].registered,
                              !.started = M.cs[old].started]
              ELSE i0
        i1c == renameCarry(i1, hasTarget, IF hasTarget THEN M.cs[new] ELSE i0)
        i2 == [i1c EXCEPT !.registered = IF @ = ZeroTime THEN minTime(i1c.created, t) ELSE @]
        td1 == reset(reset(M.td, old, <<>>), new, <<>>)
        tl1 == reset(reset(M.tl, old, FALSE), new, FALSE)
    IN  UNION { Finish([M EXCEPT !.cs = S.cs, !.ev = S.ev], td1, tl1,
                       <<Info(id, new, "renamed", "rename", NoExit, t)>>)
                : S \in RenameContainer(Store(M), old, new, i2) }

\* a destroy that deletes the row
handleAbsentDeletes(M, name) == {[M EXCEPT !.cs = Drop(M.cs, name)]}

\* destroy / remove / rm: SetContainerPresent(name, false)
handleAbsent(M, name) ==
    LET up2 == Cast(M.up, name, EventUpdate(absentResponse(name), 0, 0))
    IN  IF name \in DOMAIN M.cs
        THEN {[M EXCEPT !.cs[name].present = FALSE, !.up = up2]}
        ELSE {[M EXCEPT !.up = up2]}

\* the message of the engine: action, container name and id, the exitCode
\* attribute, the status token of a health_status action, the oldName attribute
Message(action, name, id, exit, token, old) ==
    [action |-> action, name |-> name, id |-> id, exit |-> exit, token |-> token,
     old |-> old]

\* a classifier that takes a kill for a restart
restartLikeWithKill(action, exit) ==
    action \in {"restart", "oom", "kill"} \/ (action = "die" /\ exit = "nonzero")

\* handleEvent's cases that end in handleRestartLike: restart, oom, and die
\* with an exit code that is known and not 0
restartLike(action, exit) ==
    action \in {"restart", "oom"} \/ (action = "die" /\ exit = "nonzero")

\* handleEvent: the switch over the action of a message with a name
handleEvent(M, msg, ins, t) ==
    IF restartLike(msg.action, msg.exit)
    THEN handleRestartLike(M, msg.name, msg.id, msg.action,
                           IF msg.action = "die" THEN msg.exit ELSE NoExit, ins, t)
    ELSE CASE msg.action = "create" -> handleCreate(M, msg.name, msg.id, ins, t)
           [] msg.action = "start" -> handleStart(M, msg.name, msg.id, ins, t)
           [] msg.action \in {"stop", "die"} ->
                 handleStop(M, msg.name, msg.id, msg.exit, ins, t)
           [] msg.action = "kill" -> handleSignal(M, msg.name, msg.id, t)
           [] msg.action = "health_status" ->
                 handleHealth(M, msg.name, msg.id, msg.token, ins, t)
           [] msg.action = "rename" -> handleRename(M, msg.old, msg.name, msg.id, ins, t)
           [] msg.action = "destroy" -> handleAbsent(M, msg.name)
           [] OTHER -> {M}

\* ----------------------------------------------- startup reconciliation
\* GetLatestRestartLoopAlertByContainerPK: the ids of the loop alerts of a row
LoopAlertIds(al, pk) ==
    {i \in DOMAIN al : al[i].pk = pk /\ al[i].type \in {"restart_loop", "restart_healed"}}

\* a reconciliation that never takes a loop for outlived
loopNeverOutlived(info, t) == FALSE

\* syncExisting: the container is flagged and has been running for longer
\* than the window
loopOutlived(info, t) ==
    /\ info.loop /\ info.status = "running" /\ info.started # ZeroTime
    /\ t - info.started > Window

\* the loop fields syncExisting stores for a row that is already known
syncLoop(info, ex, auto, al, t) ==
    IF ~auto THEN [info EXCEPT !.loop = FALSE, !.streak = 0, !.lsince = ZeroTime]
    ELSE
    LET i1 == [info EXCEPT !.loop = ex.loop, !.streak = ex.streak, !.lsince = ex.lsince]
        ids == LoopAlertIds(al, ex.id)
        last == al[CHOOSE i \in ids : \A j \in ids : j <= i]
        i2 == IF ids = {} THEN i1
              ELSE IF last.type = "restart_loop"
                   THEN [i1 EXCEPT !.loop = TRUE,
                                   !.streak = IF last.count > 0 THEN last.count ELSE @,
                                   !.lsince = IF last.ts # ZeroTime THEN last.ts ELSE @]
                   ELSE [i1 EXCEPT !.loop = FALSE, !.streak = 0, !.lsince = ZeroTime]
    IN  IF loopOutlived(i2, t)
        THEN [i2 EXCEPT !.loop = FALSE, !.streak = 0, !.lsince = ZeroTime]
        ELSE i2

\* syncExisting's loop body for one listed container
syncOne(cs, al, name, ins, t) ==
    IF ~ins.ok THEN cs
    ELSE
    LET has == name \in DOMAIN cs
        ex == cs[name]
        i0 == inspectToContainer(ins)
        i1 == IF has
              THEN syncLoop([i0 EXCEPT
                               !.registered = ex.registered,
                               !.started = IF @ = ZeroTime THEN ex.started ELSE @,
                               !.usince = IF i0.health = "unhealthy"
                                          THEN (IF ex.usince = ZeroTime THEN t ELSE ex.usince)
                                          ELSE ZeroTime],
                            ex, hasAutoRestartPolicy(ins), al, t)
              ELSE i0
        i2 == [i1 EXCEPT !.usince = IF i1.health = "unhealthy" /\ @ = ZeroTime
                                    THEN t ELSE @,
                         !.registered = IF @ = ZeroTime THEN minTime(i1.created, t) ELSE @]
    IN  Upsert(cs, name, i2)

\* the stores syncExisting may leave after inspecting the listed containers
RECURSIVE syncAll(_, _, _, _, _, _)
syncAll(E, css, al, w, cids, t) ==
    IF cids = {} THEN css
    ELSE LET c == CHOOSE x \in cids : TRUE
         IN  syncAll(E, {syncOne(cs, al, w[c].name, ins, t)
                             : cs \in css, ins \in Inspects(E, w, c)},
                     al, w, cids \ {c}, t)

\* a MarkAbsentExcept that marks rows absent and never present
MarkAbsentOnly(cs, presentNames) ==
    [n \in DOMAIN cs |-> [cs[n] EXCEPT !.present = @ /\ (n \in presentNames)]]

\* MarkAbsentExcept
MarkAbsentExcept(cs, presentNames) ==
    [n \in DOMAIN cs |-> [cs[n] EXCEPT !.present = (n \in presentNames)]]

\* ------------------------------------------------------- heal scanner
\* GetLatestRestartTimestampByContainerPK: the ids of the restart events of a row
RestartEventIds(ev, pk) == {i \in DOMAIN ev : ev[i].pk = pk /\ ev[i].type = "restart"}

HasRestart(ev, pk) == RestartEventIds(ev, pk) # {}

LatestRestart(ev, pk) ==
    LET ids == RestartEventIds(ev, pk)
    IN  ev[CHOOSE i \in ids : \A j \in ids : j <= i].ts

\* a scanner that never finds a container due
healDueNever(ok, last, t) == FALSE

\* checkHeals: no restart event, or the latest one is older than the window
healDue(ok, last, t) == ~ok \/ t - last > Window

\* ListContainers: the cached rows that are present
ListContainers(cs) == {cs[n] : n \in {m \in DOMAIN cs : cs[m].present}}

\* ListContainers, and the two filters checkHeals applies to its snapshot
HealCandidates(cs) ==
    {n \in DOMAIN cs : cs[n].present /\ cs[n].loop /\ cs[n].status = "running"}

\* the row checkHeals writes back
healedRow(c) == [c EXCEPT !.loop = FALSE, !.streak = 0, !.lsince = ZeroTime]

\* ------------------------------------------------------------ migrations
\* the embedded files migrations/001_init.sql and 002_container_pk.sql, by
\* the digits their names start with
MigrationFiles == {<<0, 0, 1>>, <<0, 0, 2>>}

\* string order
RECURSIVE lexLess(_, _)
lexLess(a, b) ==
    IF a = <<>> THEN b # <<>>
    ELSE IF b = <<>> THEN FALSE
    ELSE IF Head(a) # Head(b) THEN Head(a) < Head(b)
    ELSE lexLess(Tail(a), Tail(b))

\* sort.Strings
RECURSIVE sortStrings(_)
sortStrings(names) ==
    IF names = {} THEN <<>>
    ELSE LET m == CHOOSE x \in names : \A y \in names \ {x} : lexLess(x, y)
         IN  <<m>> \o sortStrings(names \ {m})

\* strconv.Atoi of the part of the name before "_"
RECURSIVE Atoi(_)
Atoi(d) == IF d = <<>> THEN 0 ELSE Atoi(SubSeq(d, 1, Len(d) - 1)) * 10 + d[Len(d)]

Versions == {Atoi(f) : f \in MigrationFiles}

\* the statements of a migration file, in the order of the file
Stmts == 1..MaxStmts

\* a new database file: nothing applied, schema_migrations empty
NoSchema ==
    [applied |-> [v \in Versions |-> {}], versions |-> {}, files |-> <<>>, stmt |-> 0,
     ret |-> ""]

\* the database the monitor runs on: Migrate has returned nil
Migrated ==
    [applied |-> [v \in Versions |-> Stmts],
     versions |-> {[version |-> v, applied_at |-> ZeroTime] : v \in Versions},
     files |-> <<>>, stmt |-> 0, ret |-> "nil"]

\* SELECT COUNT(1) FROM schema_migrations WHERE version = ?
exists(sc, ver) == \E r \in sc.versions : r.version = ver

\* ------------------------------------------------------------- the state
NoRows == [n \in {} |-> 0]

\* nothing asked of the tracker yet
NoReply ==
    [op |-> "", name |-> "", streak |-> 0, entered |-> FALSE,
     hits |-> [n \in Names |-> 0]]

\* held: the id of the alert the heal task has written and not yet broadcast
IdleHeal == [snap |-> NoRows, cur |-> "", hnow |-> ZeroTime, held |-> 0]

\* nobody has been sent anything
NoWire == [ev |-> <<>>, al |-> <<>>, up |-> [n \in Names |-> <<>>]]

\* the records of a table from row `from` on, as Broadcast sends them
Sent(table, from) ==
    [i \in 1..(Len(table) - from) |-> [id |-> table[from + i].id, pk |-> table[from + i].pk]]

\* emitEvent and emitAlertRecord broadcast each record they have stored:
\* what the subscriber holds after a task took the tables from S to S2.
\* Broadcaster.Broadcast writes the payload to every connection in turn.
Broadcast(w, S, S2) ==
    [ev |-> w.ev \o Sent(S2.ev, Len(S.ev)), al |-> w.al \o Sent(S2.al, Len(S.al)),
     up |-> S2.up]

NewContainer ==
    [st |-> "new", name |-> "", auto |-> FALSE, image |-> "i1", started |-> ZeroTime,
     created |-> ZeroTime]

\* New(): an empty cache and tracker; Start() has not yet reconciled.  The
\* engine may already run a container "a" when the monitor starts.
Init ==
    /\ now = 1
    /\ \E auto \in BOOLEAN, st \in {"new", "live"} :
          world = [c \in Cids |->
                     IF c = 1 /\ st = "live"
                     THEN [NewContainer EXCEPT !.st = "live", !.name = "a", !.auto = auto,
                                               !.created = now]
                     ELSE NewContainer]
    /\ containers = NoRows
    /\ events = <<>>
    /\ alerts = <<>>
    /\ tdata = [n \in Names |-> <<>>]
    /\ tloop = [n \in Names |-> FALSE]
    /\ heal = IdleHeal
    /\ steps = 0
    /\ phase = "boot"
    /\ reply = NoReply
    /\ wire = NoWire
    /\ schema = Migrated

Mon ==
    [cs |-> containers, ev |-> events, al |-> alerts, td |-> tdata, tl |-> tloop,
     up |-> wire.up]

\* the reducer has handled one message and left the monitor in state M2
Deliver(E, M2) ==
    /\ phase = "run"
    /\ steps < E.steps
    /\ steps' = steps + 1
    /\ containers' = M2.cs
    /\ events' = M2.ev
    /\ alerts' = M2.al
    /\ tdata' = M2.td
    /\ tloop' = M2.tl
    /\ wire' = Broadcast(wire, Mon, M2)

\* the reducer loop runs and takes the next message
Ready(E) == phase = "run" /\ steps < E.steps

Live(c) == world[c].st = "live"

LiveNames == {world[c].name : c \in {x \in Cids : Live(x)}}

Tick ==
    /\ now < MaxTime
    /\ now' = now + 1
    /\ UNCHANGED <<schema, world, containers, events, alerts, tdata, tloop, heal, steps, phase, reply, wire>>

\* Start(): syncExisting reconciles the store with the engine's list, then
\* the heal task and the reducer loop run
Boot(E) ==
    /\ phase = "boot"
    /\ phase' = "run"
    /\ \E cs \in syncAll(E, {containers}, alerts, world, {c \in Cids : Live(c)}, now) :
          containers' = MarkAbsentExcept(cs, LiveNames)
    /\ UNCHANGED <<schema, now, world, events, alerts, tdata, tloop, heal, steps, reply, wire>>

\* the process stops; it will start again with a fresh tracker and heal
\* task, and a cache loaded from the containers table
Crash(E) ==
    /\ phase = "run"
    /\ steps < E.steps
    /\ steps' = steps + 1
    /\ phase' = "boot"
    /\ tdata' = [n \in Names |-> <<>>]
    /\ tloop' = [n \in Names |-> FALSE]
    /\ heal' = IdleHeal
    /\ containers' = Load(containers)
    /\ UNCHANGED <<schema, now, world, events, alerts, reply, wire>>

\* the engine creates the next container; the reducer handles "create"
MsgCreate(E) ==
    /\ Ready(E)
    /\ \E c \in Cids, n \in Names \ LiveNames, auto \in BOOLEAN, img \in Images :
        /\ world[c].st = "new"
        /\ \A d \in Cids : d < c => world[d].st # "new"
        /\ c = 1 => img = "i1"
        /\ LET w2 == [world EXCEPT ![c] = [st |-> "live", name |-> n, auto |-> auto,
                                           image |-> img, started |-> ZeroTime,
                                           created |-> now]]
           IN  /\ world' = w2
               /\ \E ins \in Inspects(E, w2, c) :
                    \E M2 \in handleCreate(Mon, n, c, ins, now) : Deliver(E, M2)
        /\ UNCHANGED <<schema, now, heal, phase, reply>>

MsgStart(E) ==
    /\ Ready(E)
    /\ \E c \in Cids :
        /\ Live(c)
        /\ LET w2 == [world EXCEPT ![c].started = now]
           IN  /\ world' = w2
               /\ \E ins \in Inspects(E, w2, c) :
                    \E M2 \in handleStart(Mon, world[c].name, c, ins, now) : Deliver(E, M2)
        /\ UNCHANGED <<schema, now, heal, phase, reply>>

\* "stop", or "die" with exit code 0 or none
MsgStop(E) ==
    /\ Ready(E)
    /\ \E c \in Cids, exit \in E.exits : \E ins \in Inspects(E, world, c) :
        /\ Live(c)
        /\ \E M2 \in handleStop(Mon, world[c].name, c, exit, ins, now) : Deliver(E, M2)
        /\ UNCHANGED <<schema, now, world, heal, phase, reply>>

\* "die" with a non-zero exit code, "restart", "oom"
MsgRestartLike(E) ==
    /\ Ready(E)
    /\ \E c \in Cids, reason \in E.reasons : \E ins \in Inspects(E, world, c) :
        /\ Live(c)
        /\ \E M2 \in handleRestartLike(Mon, world[c].name, c, reason,
                                       IF reason = "die" THEN "nonzero" ELSE NoExit,
                                       ins, now) : Deliver(E, M2)
        /\ UNCHANGED <<schema, now, world, heal, phase, reply>>

MsgSignal(E) ==
    /\ Ready(E)
    /\ \E c \in Cids :
        /\ Live(c)
        /\ \E M2 \in handleSignal(Mon, world[c].name, c, now) : Deliver(E, M2)
        /\ UNCHANGED <<schema, now, world, heal, phase, reply>>

MsgHealth(E) ==
    /\ Ready(E)
    /\ \E c \in Cids, token \in HealthTokens : \E ins \in Inspects(E, world, c) :
        /\ Live(c)
        /\ \E M2 \in handleHealth(Mon, world[c].name, c, token, ins, now) : Deliver(E, M2)
        /\ UNCHANGED <<schema, now, world, heal, phase, reply>>

MsgRename(E) ==
    /\ Ready(E)
    /\ \E c \in Cids, new \in Names \ LiveNames :
        /\ Live(c)
        /\ LET w2 == [world EXCEPT ![c].name = new]
           IN  /\ world' = w2
               /\ \E ins \in Inspects(E, w2, c) :
                    \E M2 \in handleRename(Mon, world[c].name, new, c, ins, now) :
                       Deliver(E, M2)
        /\ UNCHANGED <<schema, now, heal, phase, reply>>

\* "destroy" (also remove, rm)
MsgAbsent(E) ==
    /\ Ready(E)
    /\ \E c \in Cids :
        /\ Live(c)
        /\ world' = [world EXCEPT ![c].st = "gone"]
        /\ \E M2 \in handleAbsent(Mon, world[c].name) : Deliver(E, M2)
        /\ UNCHANGED <<schema, now, heal, phase, reply>>

\* checkHeals starts: it takes the time and the list of containers
HealTick ==
    /\ phase = "run"
    /\ DOMAIN heal.snap = {} /\ heal.cur = "" /\ heal.held = 0
    /\ HealCandidates(containers) # {}
    /\ heal' = [snap |-> [n \in HealCandidates(containers) |-> containers[n]],
                cur |-> "", hnow |-> now, held |-> 0]
    /\ UNCHANGED <<schema, now, world, containers, events, alerts, tdata, tloop, steps, phase, reply, wire>>

\* checkHeals asks for the latest restart event of the next container
HealCheck ==
    \E n \in DOMAIN heal.snap :
        /\ heal.cur = "" /\ heal.held = 0
        /\ LET pk == heal.snap[n].id
               ok == HasRestart(events, pk)
           IN  heal' = IF healDue(ok, IF ok THEN LatestRestart(events, pk) ELSE ZeroTime,
                                  heal.hnow)
                       THEN [heal EXCEPT !.cur = n]
                       ELSE [heal EXCEPT !.snap = Drop(@, n)]
        /\ UNCHANGED <<schema, now, world, containers, events, alerts, tdata, tloop, steps, phase, reply, wire>>

\* checkHeals writes the healed row, clears the tracker and emits the alert
HealApply ==
    /\ heal.cur # ""
    /\ LET n == heal.cur
           c == heal.snap[n]
       IN  \E M2 \in Finish(Mon, reset(tdata, n, <<>>), reset(tloop, n, FALSE),
                            <<Up(n, healedRow(c)),
                              Alert(c.cid, n, "restart_healed", "green", c.streak,
                                    NoExit, heal.hnow)>>) :
              /\ containers' = M2.cs
              /\ alerts' = M2.al
              /\ tdata' = M2.td
              /\ tloop' = M2.tl
              /\ wire' = Broadcast(wire, Mon, M2)
    /\ heal' = [heal EXCEPT !.snap = Drop(@, heal.cur), !.cur = ""]
    /\ UNCHANGED <<schema, now, world, events, steps, phase, reply>>

\* the same in the two steps the heal task takes: checkHeals writes the
\* healed row, clears the tracker, and emitAlertRecord stores the alert ...
HealWrite ==
    /\ heal.cur # ""
    /\ LET n == heal.cur
           c == heal.snap[n]
       IN  \E M2 \in Finish(Mon, reset(tdata, n, <<>>), reset(tloop, n, FALSE),
                            <<Up(n, healedRow(c)),
                              Alert(c.cid, n, "restart_healed", "green", c.streak,
                                    NoExit, heal.hnow)>>) :
              /\ containers' = M2.cs
              /\ alerts' = M2.al
              /\ tdata' = M2.td
              /\ tloop' = M2.tl
              /\ heal' = [heal EXCEPT !.snap = Drop(@, heal.cur), !.cur = "",
                                      !.held = IF Len(M2.al) > Len(alerts)
                                               THEN Len(M2.al) ELSE 0]
    /\ UNCHANGED <<schema, now, world, events, steps, phase, reply, wire>>

\* ... and then broadcasts it; no lock is held from the one to the other
HealCast ==
    /\ heal.held # 0
    /\ LET a == alerts[heal.held]
       IN  wire' = [wire EXCEPT
                      !.al = @ \o <<[id |-> a.id, pk |-> a.pk]>>,
                      !.up = IF a.name \in DOMAIN containers
                             THEN Cast(@, a.name,
                                       EventUpdate(containerResponse(a.name,
                                                                     containers[a.name]),
                                                   0, a.id))
                             ELSE @]
    /\ heal' = [heal EXCEPT !.held = 0]
    /\ UNCHANGED <<schema, now, world, containers, events, alerts, tdata, tloop, steps, phase,
                   reply>>

\* ------------------------------------------------- the tracker by itself
\* record(name, now), called directly: the answer is kept in reply
TrackerRecord ==
    /\ steps < TrackerSteps
    /\ steps' = steps + 1
    /\ \E n \in Names :
          LET e == recordEntered(tdata[n], tloop[n], now)
          IN  /\ tdata' = [tdata EXCEPT ![n] = recordList(@, now)]
              /\ tloop' = [tloop EXCEPT ![n] = recordFlag(tdata[n], @, now)]
              /\ reply' = [op |-> "record", name |-> n,
                           streak |-> Len(recordList(tdata[n], now)), entered |-> e,
                           hits |-> [reply.hits EXCEPT ![n] = @ + (IF e THEN 1 ELSE 0)]]
    /\ UNCHANGED <<schema, now, world, containers, events, alerts, heal, phase, wire>>

\* markHealed(name) or reset(name), called directly
TrackerClear ==
    /\ steps < TrackerSteps
    /\ steps' = steps + 1
    /\ \E n \in Names, op \in {"markHealed", "reset"} :
          /\ tdata' = reset(tdata, n, <<>>)
          /\ tloop' = reset(tloop, n, FALSE)
          /\ reply' = [reply EXCEPT !.op = op, !.name = n, !.entered = FALSE,
                                    !.streak = 0]
    /\ UNCHANGED <<schema, now, world, containers, events, alerts, heal, phase, wire>>

NextTracker == Tick \/ TrackerRecord \/ TrackerClear

SpecTracker == Init /\ [][NextTracker]_vars

\* --------------------------------------------------- the whole monitor
EnvAll ==
    [steps |-> MaxSteps, fail |-> TRUE, statuses |-> Statuses, health |-> HealthObs,
     reasons |-> Reasons, exits |-> ExitCodes]

Next ==
    \/ Tick
    \/ Boot(EnvAll)
    \/ Crash(EnvAll)
    \/ MsgCreate(EnvAll)
    \/ MsgStart(EnvAll)
    \/ MsgStop(EnvAll)
    \/ MsgRestartLike(EnvAll)
    \/ MsgSignal(EnvAll)
    \/ MsgHealth(EnvAll)
    \/ MsgRename(EnvAll)
    \/ MsgAbsent(EnvAll)
    \/ HealTick
    \/ HealCheck
    \/ HealApply

Spec == Init /\ [][Next]_vars

\* ------------------------------------------- restart loops of one container
\* the container the engine runs at start has no health check
EnvLoop ==
    [steps |-> LoopSteps, fail |-> TRUE, statuses |-> Statuses, health |-> {<<"", 0>>},
     reasons |-> Reasons, exits |-> ExitCodes]

NextLoop ==
    \/ Tick
    \/ Boot(EnvLoop)
    \/ Crash(EnvLoop)
    \/ MsgStart(EnvLoop)
    \/ MsgStop(EnvLoop)
    \/ MsgRestartLike(EnvLoop)
    \/ HealTick
    \/ HealCheck
    \/ HealApply

SpecLoop == Init /\ [][NextLoop]_vars

\* watchHeals runs checkHeals on every tick of its ticker, in a task of its
\* own, and checkHeals runs to its end: no step of the scanner waits forever
SpecLoopFair ==
    /\ SpecLoop
    /\ WF_vars(HealTick)
    /\ WF_vars(HealCheck)
    /\ WF_vars(HealApply)

\* ------------------------------------------- health checks of one container
EnvHealth ==
    [steps |-> HealthSteps, fail |-> TRUE, statuses |-> {"running"}, health |-> HealthObs,
     reasons |-> {"die"}, exits |-> {"zero"}]

NextHealth ==
    \/ Tick
    \/ Boot(EnvHealth)
    \/ MsgStart(EnvHealth)
    \/ MsgStop(EnvHealth)
    \/ MsgHealth(EnvHealth)

SpecHealth == Init /\ [][NextHealth]_vars

\* ------------------------------------------ two containers, renamed, no faults
EnvRename ==
    [steps |-> RenameSteps, fail |-> FALSE, statuses |-> {"running"},
     health |-> {<<"", 0>>}, reasons |-> {"die"}, exits |-> {"zero"}]

NextRename ==
    \/ Boot(EnvRename)
    \/ MsgCreate(EnvRename)
    \/ MsgRestartLike(EnvRename)
    \/ MsgRename(EnvRename)
    \/ MsgAbsent(EnvRename)

SpecRename == Init /\ [][NextRename]_vars

\* ------------------------------- containers destroyed and created again
\* no container is renamed; an inspect may fail
EnvRecreate ==
    [steps |-> RecreateSteps, fail |-> TRUE, statuses |-> {"running"},
     health |-> {<<"", 0>>}, reasons |-> {"die"}, exits |-> {"zero"}]

NextRecreate ==
    \/ Tick
    \/ Boot(EnvRecreate)
    \/ Crash(EnvRecreate)
    \/ MsgCreate(EnvRecreate)
    \/ MsgStart(EnvRecreate)
    \/ MsgRestartLike(EnvRecreate)
    \/ MsgAbsent(EnvRecreate)
    \/ HealTick
    \/ HealCheck
    \/ HealApply

SpecRecreate == Init /\ [][NextRecreate]_vars

\* ------------------------- containers renamed onto stored names, over time
EnvCollide ==
    [steps |-> CollideSteps, fail |-> FALSE, statuses |-> {"running"},
     health |-> {<<"", 0>>}, reasons |-> {"die"}, exits |-> {"zero"}]

NextCollide ==
    \/ Tick
    \/ Boot(EnvCollide)
    \/ MsgCreate(EnvCollide)
    \/ MsgRename(EnvCollide)
    \/ MsgAbsent(EnvCollide)

SpecCollide == Init /\ [][NextCollide]_vars

\* ------------------------------------- a database found at process start
\* a row of the containers table, inserted for a running container
SeedRow(id, c) ==
    [id |-> id, cid |-> c, image |-> "i1", status |-> "running", health |-> "",
     hstreak |-> 0, usince |-> ZeroTime, loop |-> FALSE, streak |-> 0,
     lsince |-> ZeroTime, present |-> TRUE, started |-> ZeroTime, created |-> 1,
     registered |-> 1, last |-> 0, lastdb |-> 0]

\* a row of the events table with any container_pk, name and engine id
SeedEvents ==
    UNION { [1..k -> [id : {0}, pk : 1..2, name : Names, cid : 1..2, type : {"started"},
                      reason : {"start"}, exit : {NoExit}, ts : {1}]]
            : k \in 1..MaxSeeded }

\* the process is down: containers "a" and "b" are in the containers table
\* with surrogate ids 1 and 2, and the events table holds rows whose
\* container_pk may point at the other container
InitSeeded ==
    /\ now = 1
    /\ world = [c \in Cids |->
                  IF c <= 2
                  THEN [NewContainer EXCEPT !.st = "live", !.created = 1,
                                            !.name = IF c = 1 THEN "a" ELSE "b"]
                  ELSE NewContainer]
    /\ containers = [n \in Names |-> SeedRow(IF n = "a" THEN 1 ELSE 2,
                                              IF n = "a" THEN 1 ELSE 2)]
    /\ \E seeded \in SeedEvents :
          events = [i \in DOMAIN seeded |-> [seeded[i] EXCEPT !.id = i]]
    /\ alerts = <<>>
    /\ tdata = [n \in Names |-> <<>>]
    /\ tloop = [n \in Names |-> FALSE]
    /\ heal = IdleHeal
    /\ steps = 0
    /\ phase = "down"
    /\ reply = NoReply
    /\ wire = NoWire
    /\ schema = Migrated

\* main: the store is loaded before the monitor starts; Load reads the
\* containers table and nothing else
LoadStore ==
    /\ phase = "down"
    /\ phase' = "boot"
    /\ containers' = Load(containers)
    /\ UNCHANGED <<schema, now, world, events, alerts, tdata, tloop, heal, steps, reply, wire>>

EnvLoad ==
    [steps |-> LoadSteps, fail |-> FALSE, statuses |-> {"running"},
     health |-> {<<"", 0>>}, reasons |-> {"die"}, exits |-> {"zero"}]

NextLoad ==
    \/ LoadStore
    \/ Boot(EnvLoad)
    \/ MsgStart(EnvLoad)

SpecLoad == InitSeeded /\ [][NextLoad]_vars

\* --------------------- events that arrive under a name the store has not
EnvEmit ==
    [steps |-> EmitSteps, fail |-> TRUE, statuses |-> {"running"},
     health |-> {<<"", 0>>}, reasons |-> {"die"}, exits |-> {"zero"}]

NextEmit ==
    \/ Boot(EnvEmit)
    \/ MsgCreate(EnvEmit)
    \/ MsgStop(EnvEmit)
    \/ MsgRename(EnvEmit)
    \/ MsgAbsent(EnvEmit)

SpecEmit == Init /\ [][NextEmit]_vars

\* ------------------------------------------ containers that stop and fail
EnvFail ==
    [steps |-> FailSteps, fail |-> TRUE, statuses |-> Statuses, health |-> {<<"", 0>>},
     reasons |-> Reasons, exits |-> ExitCodes]

NextFail ==
    \/ Boot(EnvFail)
    \/ MsgCreate(EnvFail)
    \/ MsgStop(EnvFail)
    \/ MsgRestartLike(EnvFail)

SpecFail == Init /\ [][NextFail]_vars

\* --------------------------------- every message the classifier tells apart
\* the messages the engine may send for container c without changing it
Msgs(E, c) ==
    {Message(a, world[c].name, c, x, "", "") : a \in {"stop", "die"}, x \in E.exits}
        \cup {Message(a, world[c].name, c, NoExit, "", "") : a \in {"restart", "oom", "kill"}}
        \cup {Message("health_status", world[c].name, c, NoExit, tk, "") : tk \in HealthTokens}

\* the reducer loop takes a message from the stream and calls handleEvent
MsgEvent(E) ==
    /\ Ready(E)
    /\ \E c \in Cids :
        /\ Live(c)
        /\ \E msg \in Msgs(E, c), ins \in Inspects(E, world, c) :
              \E M2 \in handleEvent(Mon, msg, ins, now) : Deliver(E, M2)
        /\ UNCHANGED <<schema, now, world, heal, phase, reply>>

EnvFrame ==
    [steps |-> FrameSteps, fail |-> TRUE, statuses |-> {"running"},
     health |-> {<<"", 0>>}, reasons |-> Reasons, exits |-> ExitCodes]

NextFrame ==
    \/ Boot(EnvFrame)
    \/ MsgStart(EnvFrame)
    \/ MsgEvent(EnvFrame)

SpecFrame == Init /\ [][NextFrame]_vars

\* ------------------- the store and the engine drift apart between starts
\* a failed inspect leaves a create or a rename unrecorded, the process stops
\* and starts again
EnvSync ==
    [steps |-> SyncSteps, fail |-> TRUE, statuses |-> Statuses, health |-> {<<"", 0>>},
     reasons |-> {"die"}, exits |-> {"zero"}]

NextSync ==
    \/ Boot(EnvSync)
    \/ Crash(EnvSync)
    \/ MsgCreate(EnvSync)
    \/ MsgRename(EnvSync)
    \/ MsgAbsent(EnvSync)

SpecSync == Init /\ [][NextSync]_vars

\* ------------------------------------------ the store called page by page
\* no list call made yet
NoPage ==
    [op |-> "", name |-> "", before |-> 0, limit |-> 0, page |-> <<>>, seen |-> <<>>,
     first |-> {}, from |-> 0, calls |-> 0]

\* ------------------------------------------- the stream and the two tasks
\* the reducer handles restart-like messages while the heal task, split at
\* its broadcast, scans; every inspect succeeds and finds the container running
EnvCast ==
    [steps |-> CastSteps, fail |-> FALSE, statuses |-> {"running"}, health |-> {<<"", 0>>},
     reasons |-> Reasons, exits |-> ExitCodes]

NextCast ==
    \/ Tick
    \/ Boot(EnvCast)
    \/ MsgRestartLike(EnvCast)
    \/ HealTick
    \/ HealCheck
    \/ HealWrite
    \/ HealCast

SpecCast == Init /\ [][NextCast]_vars

\* ------------------------------------------ restart loops across renames
\* long enough for a container to be flagged, renamed onto a stored name and
\* flagged again
EnvRenameLoop ==
    [steps |-> RenameLoopSteps, fail |-> FALSE, statuses |-> {"running"},
     health |-> {<<"", 0>>}, reasons |-> {"die"}, exits |-> {"zero"}]

NextRenameLoop ==
    \/ Boot(EnvRenameLoop)
    \/ MsgCreate(EnvRenameLoop)
    \/ MsgRestartLike(EnvRenameLoop)
    \/ MsgRename(EnvRenameLoop)
    \/ MsgAbsent(EnvRenameLoop)

SpecRenameLoop == Init /\ [][NextRenameLoop]_vars

\* ------------------------------------- the streak across process restarts
\* restart-like messages for an auto-restart container, with process stops
\* that empty the tracker while the stored flag stands
EnvStreak ==
    [steps |-> StreakSteps, fail |-> TRUE, statuses |-> {"running"}, health |-> {<<"", 0>>},
     reasons |-> Reasons, exits |-> ExitCodes]

NextStreak ==
    \/ Tick
    \/ Boot(EnvStreak)
    \/ Crash(EnvStreak)
    \/ MsgRestartLike(EnvStreak)

SpecStreak == Init /\ [][NextStreak]_vars

\* ------------------------------------------------------------- Migrate
\* main has opened a new database file and nothing else has run
InitMigrate ==
    /\ now = 1
    /\ world = [c \in Cids |-> NewContainer]
    /\ containers = NoRows
    /\ events = <<>>
    /\ alerts = <<>>
    /\ tdata = [n \in Names |-> <<>>]
    /\ tloop = [n \in Names |-> FALSE]
    /\ heal = IdleHeal
    /\ steps = 0
    /\ phase = "down"
    /\ reply = NoReply
    /\ wire = NoWire
    /\ schema = NoSchema

Unmigrated == <<now, world, containers, events, alerts, tdata, tloop, heal, phase, reply, wire>>

\* main calls Migrate; after an error the process ends (log.Fatalf) and a
\* later start calls it again on the same file
MigrateCall ==
    /\ phase = "down" /\ schema.ret \in {"", "error"}
    /\ steps < MigrateSteps
    /\ steps' = steps + 1
    /\ schema' = [schema EXCEPT !.files = sortStrings(MigrationFiles), !.stmt = 0,
                                !.ret = "running"]
    /\ UNCHANGED Unmigrated

\* the loop reaches a file: it is skipped when its version is recorded
MigrateFile ==
    /\ schema.ret = "running" /\ schema.files # <<>> /\ schema.stmt = 0
    /\ schema' = IF exists(schema, Atoi(Head(schema.files)))
                 THEN [schema EXCEPT !.files = Tail(@)]
                 ELSE [schema EXCEPT !.stmt = 1]
    /\ UNCHANGED <<steps>> /\ UNCHANGED Unmigrated

\* ExecContext(content): the statements of the file run one after the other,
\* each committed by itself; one may fail (or the process may end), and the
\* ones before it stay applied
MigrateExec ==
    /\ schema.ret = "running" /\ schema.stmt \in Stmts
    /\ \E ok \in BOOLEAN :
          schema' = IF ok
                    THEN [schema EXCEPT !.applied[Atoi(Head(schema.files))] =
                                            @ \cup {schema.stmt},
                                        !.stmt = @ + 1]
                    ELSE [schema EXCEPT !.files = <<>>, !.stmt = 0, !.ret = "error"]
    /\ UNCHANGED <<steps>> /\ UNCHANGED Unmigrated

\* INSERT INTO schema_migrations (version, applied_at), a statement of its own
MigrateRecord ==
    /\ schema.ret = "running" /\ schema.stmt = MaxStmts + 1
    /\ \E ok \in BOOLEAN :
          schema' = IF ok
                    THEN [schema EXCEPT
                            !.versions = @ \cup {[version |-> Atoi(Head(schema.files)),
                                                  applied_at |-> formatTime(Time(now, 0))]},
                            !.files = Tail(@), !.stmt = 0]
                    ELSE [schema EXCEPT !.files = <<>>, !.stmt = 0, !.ret = "error"]
    /\ UNCHANGED <<steps>> /\ UNCHANGED Unmigrated

\* no file is left: Migrate returns nil
MigrateReturn ==
    /\ schema.ret = "running" /\ schema.files = <<>>
    /\ schema' = [schema EXCEPT !.ret = "nil"]
    /\ UNCHANGED <<steps>> /\ UNCHANGED Unmigrated

NextMigrate ==
    \/ Tick
    \/ MigrateCall
    \/ MigrateFile
    \/ MigrateExec
    \/ MigrateRecord
    \/ MigrateReturn

SpecMigrate == InitMigrate /\ [][NextMigrate]_vars

\* ------------------------------------------------------- cancellation
\* neither task has seen the token yet / the reducer loop has not returned /
\* watchHeals has not returned
reducerRuns(p) == p \in {"run", "cancel", "cancel-h"}

healRuns(p) == p \in {"run", "cancel", "cancel-r"}

\* a heal task that is never found waiting
atSelectNever(h) == FALSE

\* watchHeals waits in its select: no scan is under way
atSelect(h) == DOMAIN h.snap = {} /\ h.cur = "" /\ h.held = 0

EnvStop ==
    [steps |-> StopSteps, fail |-> TRUE, statuses |-> {"running"}, health |-> {<<"", 0>>},
     reasons |-> Reasons, exits |-> ExitCodes]

\* main's signal context is cancelled while both tasks run
Cancel ==
    /\ phase = "run"
    /\ phase' = "cancel"
    /\ UNCHANGED <<schema, now, world, containers, events, alerts, tdata, tloop, heal, steps,
                   reply, wire>>

\* Start's select takes a message although ctx.Done() is ready too: the
\* handler runs with the cancelled context, so its inspect, its store calls
\* and its writes to the subscribers all fail; what is left of it is what it
\* does to the tracker
MsgCancelled(E) ==
    /\ phase \in {"cancel", "cancel-h"}
    /\ steps < E.steps
    /\ steps' = steps + 1
    /\ \E c \in Cids :
          /\ Live(c)
          /\ \E msg \in Msgs(E, c) : \E M2 \in handleEvent(Mon, msg, FailedInspect, now) :
                /\ tdata' = M2.td
                /\ tloop' = M2.tl
    /\ UNCHANGED <<schema, now, world, containers, events, alerts, heal, phase, reply, wire>>

\* Start's select takes ctx.Done(): the reducer loop returns
ReducerReturn ==
    /\ phase \in {"cancel", "cancel-h"}
    /\ phase' = IF phase = "cancel" THEN "cancel-r" ELSE "stopped"
    /\ UNCHANGED <<schema, now, world, containers, events, alerts, tdata, tloop, heal, steps,
                   reply, wire>>

\* checkHeals goes on with the cancelled context: the query for the latest
\* restart fails and the container is skipped; for a container already found
\* due the upsert and the alert fail and markHealed clears the tracker
HealCancelled ==
    /\ phase \in {"cancel", "cancel-r"}
    /\ ~atSelect(heal)
    /\ IF heal.cur = ""
       THEN /\ \E n \in DOMAIN heal.snap : heal' = [heal EXCEPT !.snap = Drop(@, n)]
            /\ UNCHANGED <<tdata, tloop>>
       ELSE /\ heal' = [heal EXCEPT !.snap = Drop(@, heal.cur), !.cur = ""]
            /\ tdata' = reset(tdata, heal.cur, <<>>)
            /\ tloop' = reset(tloop, heal.cur, FALSE)
    /\ UNCHANGED <<schema, now, world, containers, events, alerts, steps, phase, reply, wire>>

\* watchHeals' select takes ctx.Done(): the heal task returns
HealStop ==
    /\ phase \in {"cancel", "cancel-r"}
    /\ atSelect(heal)
    /\ phase' = IF phase = "cancel" THEN "cancel-h" ELSE "stopped"
    /\ UNCHANGED <<schema, now, world, containers, events, alerts, tdata, tloop, heal, steps,
                   reply, wire>>

NextStop ==
    \/ Tick
    \/ Boot(EnvStop)
    \/ MsgRestartLike(EnvStop)
    \/ HealTick
    \/ (phase = "run" /\ HealCheck)
    \/ (phase = "run" /\ HealApply)
    \/ Cancel
    \/ MsgCancelled(EnvStop)
    \/ ReducerReturn
    \/ HealCancelled
    \/ HealStop

SpecStop == Init /\ [][NextStop]_vars

\* a select with a ready case does not wait, and ctx.Done() stays ready: the
\* reducer loop takes it at some read; checkHeals runs to its end
SpecStopFair ==
    /\ SpecStop
    /\ WF_vars(ReducerReturn)
    /\ WF_vars(HealCancelled)
    /\ WF_vars(HealStop)

\* the store holds containers "a" and "b" and no record
InitPage ==
    /\ now = 1
    /\ world = [c \in Cids |->
                  IF c <= 2
                  THEN [NewContainer EXCEPT !.st = "live", !.created = 1,
                                            !.name = IF c = 1 THEN "a" ELSE "b"]
                  ELSE NewContainer]
    /\ containers = [n \in Names |-> SeedRow(IF n = "a" THEN 1 ELSE 2,
                                              IF n = "a" THEN 1 ELSE 2)]
    /\ events = <<>>
    /\ alerts = <<>>
    /\ tdata = [n \in Names |-> <<>>]
    /\ tloop = [n \in Names |-> FALSE]
    /\ heal = IdleHeal
    /\ steps = 0
    /\ phase = "run"
    /\ reply = NoPage
    /\ wire = NoWire
    /\ schema = Migrated

\* the events the writers hand to AddEvent in these runs
PageEvents ==
    { [id |-> 0, pk |-> containers[n].id, name |-> n, cid |-> containers[n].cid,
       type |-> "started", reason |-> "start", exit |-> NoExit, ts |-> Time(now, ns)]
      : n \in Names, ns \in {0, 1} }

PageAlerts ==
    { [id |-> 0, pk |-> containers[n].id, name |-> n, cid |-> containers[n].cid,
       type |-> "unhealthy", sev |-> "red", count |-> NoCount, reason |-> "",
       exit |-> NoExit, ts |-> Time(now, 0)]
      : n \in Names }

\* AddEvent: the row is appended and the container's last_event_id set
StoreAddEvent ==
    /\ steps < PageSteps
    /\ steps' = steps + 1
    /\ \E e \in PageEvents :
          /\ events' = AddRecord(events, e)
          /\ containers' = [n \in DOMAIN containers |->
                              IF n = e.name \/ containers[n].id = e.pk
                              THEN [containers[n] EXCEPT
                                      !.last = IF n = e.name THEN Len(events') ELSE @,
                                      !.lastdb = IF containers[n].id = e.pk
                                                 THEN Len(events') ELSE @]
                              ELSE containers[n]]
    /\ UNCHANGED <<schema, now, world, alerts, tdata, tloop, heal, phase, reply, wire>>

StoreAddAlert ==
    /\ steps < PageSteps
    /\ steps' = steps + 1
    /\ \E a \in PageAlerts : alerts' = AddRecord(alerts, a)
    /\ UNCHANGED <<schema, now, world, containers, events, tdata, tloop, heal, phase, reply, wire>>

\* the list call op with the cursor and limit given
ListCall(op, name, beforeID, limit) ==
    CASE op = "ListEvents" -> ListEvents(containers, events, name, beforeID, limit)
      [] op = "ListAllEvents" -> ListAllEvents(events, beforeID, limit)
      [] op = "ListAllAlerts" -> ListAllAlerts(alerts, beforeID, limit)

\* the ids of the rows the list call ranges over, below the cursor
Listed(op, name, beforeID) ==
    LET table == IF op = "ListAllAlerts" THEN alerts ELSE events
    IN  {table[i].id : i \in {j \in DOMAIN table :
                                 /\ op = "ListEvents" => /\ name \in DOMAIN containers
                                                         /\ table[j].pk = containers[name].id
                                 /\ (beforeID <= 0 \/ table[j].id < beforeID)}}

Ids(page) == [i \in DOMAIN page |-> page[i].id]

\* a client asks for the first page
PageFirst ==
    /\ reply.op = ""
    /\ \E op \in {"ListEvents", "ListAllEvents", "ListAllAlerts"},
          beforeID \in (0 - 1)..PageSteps, limit \in (0 - 1)..(DefaultLimit + 1) :
          LET name == IF op = "ListEvents" THEN "a" ELSE ""
              page == ListCall(op, name, beforeID, limit)
          IN  reply' = [op |-> op, name |-> name, before |-> beforeID, limit |-> limit,
                        page |-> page, seen |-> Ids(page),
                        first |-> Listed(op, name, beforeID), from |-> beforeID,
                        calls |-> 1]
    /\ UNCHANGED <<schema, now, world, containers, events, alerts, tdata, tloop, heal, steps, phase, wire>>

\* and for the next page, with before_id the smallest id of the page it has
PageNext ==
    /\ reply.op # "" /\ reply.page # <<>>
    /\ LET beforeID == reply.page[Len(reply.page)].id
           page == ListCall(reply.op, reply.name, beforeID, reply.limit)
       IN  reply' = [reply EXCEPT !.before = beforeID, !.page = page,
                                  !.seen = @ \o Ids(page), !.calls = @ + 1]
    /\ UNCHANGED <<schema, now, world, containers, events, alerts, tdata, tloop, heal, steps, phase, wire>>

NextPage ==
    \/ StoreAddEvent
    \/ StoreAddAlert
    \/ PageFirst
    \/ PageNext

SpecPage == InitPage /\ [][NextPage]_vars

\* ------------------------------------------------------------ properties
\* the alerts a handler has added to the log al0, leaving al1
Added(al0, al1) == SubSeq(al1, Len(al0) + 1, Len(al1))

OfType(seq, types) == {i \in DOMAIN seq : seq[i].type \in types}

\* C1: every stored container with restart_loop set has a restart_streak
\* of at least the threshold and a non-zero restart_loop_since.
C1_LoopHasStreakAndSince ==
    \A n \in DOMAIN containers :
        containers[n].loop =>
            containers[n].streak >= Threshold /\ containers[n].lsince # ZeroTime

\* C2: for every stored container, health_status is unhealthy exactly when
\* unhealthy_since is non-zero.
C2_UnhealthyIffSince ==
    \A n \in DOMAIN containers :
        (containers[n].health = "unhealthy") <=> (containers[n].usince # ZeroTime)

\* the restart-like events counted for name n once one more arrives at time
\* t: those the tracker holds with a timestamp inside the window, and the new one
InWindow(n, t) == Cardinality({i \in DOMAIN tdata[n] : tdata[n][i] >= t - Window}) + 1

\* C3: a restart-like event for a container that is stored, has an
\* auto-restart policy and is not in a loop sets restart_loop exactly when it
\* is the T-th inside the window; the row then has restart_streak = T and the
\* event adds exactly one restart_loop alert (red, restart_count = T); an
\* earlier event leaves restart_loop unset and adds no restart_loop alert.
C3_LoopAtThreshold ==
    \A c \in Cids, reason \in Reasons : \A ins \in Inspects(EnvAll, world, c) :
        LET n == world[c].name
        IN  (/\ phase = "run" /\ Live(c) /\ ins.ok /\ hasAutoRestartPolicy(ins)
             /\ n \in DOMAIN containers /\ ~containers[n].loop)
            => \A M2 \in handleRestartLike(Mon, n, c, reason,
                                          IF reason = "die" THEN "nonzero" ELSE NoExit,
                                          ins, now) :
                 LET new == Added(alerts, M2.al)
                     loops == OfType(new, {"restart_loop"})
                 IN  IF InWindow(n, now) >= Threshold
                     THEN /\ M2.cs[n].loop
                          /\ M2.cs[n].streak = Threshold
                          /\ Cardinality(loops) = 1
                          /\ \A i \in loops : new[i].sev = "red" /\ new[i].count = Threshold
                     ELSE ~M2.cs[n].loop /\ loops = {}

\* C3: a container that entered the loop on its T-th restart inside the window
C3_EnteredLoop ==
    \E n \in DOMAIN containers :
        /\ containers[n].loop /\ containers[n].streak = Threshold
        /\ Len(tdata[n]) = Threshold /\ tloop[n]
        /\ Cardinality({i \in DOMAIN events : events[i].type = "restart"
                                               /\ events[i].pk = containers[n].id
                                               /\ events[i].ts >= now - Window}) = Threshold
        /\ Cardinality({i \in DOMAIN alerts : alerts[i].type = "restart_loop"
                                               /\ alerts[i].pk = containers[n].id
                                               /\ alerts[i].count = Threshold}) = 1

\* C8: STARTED for a stored container whose inspect reports an auto-restart
\* policy leaves restart_loop and restart_streak as they were stored.
C8_StartKeepsLoop ==
    \A c \in Cids : \A ins \in Inspects(EnvAll, [world EXCEPT ![c].started = now], c) :
        LET n == world[c].name
        IN  (/\ phase = "run" /\ Live(c) /\ ins.ok /\ hasAutoRestartPolicy(ins)
             /\ n \in DOMAIN containers)
            => \A M2 \in handleStart(Mon, n, c, ins, now) :
                 /\ M2.cs[n].loop = containers[n].loop
                 /\ M2.cs[n].streak = containers[n].streak

\* C8: a container in a restart loop for which STARTED has been handled
C8_StartedInLoop ==
    \E n \in DOMAIN containers :
        /\ containers[n].loop /\ containers[n].streak >= Threshold
        /\ events # <<>>
        /\ events[Len(events)].type = "started" /\ events[Len(events)].name = n

\* C9: HEALTH adds an unhealthy alert (red) exactly when the status it
\* stores is unhealthy and the status stored before was not, and a healthy
\* alert (green) exactly when the status it stores is healthy and before it
\* the stored status was unhealthy or the stored failing streak above zero;
\* it adds no other alert.
C9_HealthAlerts ==
    \A c \in Cids, token \in HealthTokens : \A ins \in Inspects(EnvAll, world, c) :
        LET n == world[c].name
            has == n \in DOMAIN containers
            prev == IF has THEN containers[n].health ELSE ""
            prevStreak == IF has THEN containers[n].hstreak ELSE 0
        IN  (phase = "run" /\ Live(c))
            => \A M2 \in handleHealth(Mon, n, c, token, ins, now) :
                 LET new == Added(alerts, M2.al)
                     after == IF n \in DOMAIN M2.cs THEN M2.cs[n].health ELSE ""
                     bad == after = "unhealthy" /\ prev # "unhealthy"
                     good == after = "healthy" /\ (prev = "unhealthy" \/ prevStreak > 0)
                 IN  /\ Len(new) = (IF bad \/ good THEN 1 ELSE 0)
                     /\ bad => new[1].type = "unhealthy" /\ new[1].sev = "red"
                     /\ good => new[1].type = "healthy" /\ new[1].sev = "green"

\* a step in which the heal scanner has persisted a restart_healed alert
HealedStep ==
    /\ Len(alerts') = Len(alerts) + 1
    /\ alerts'[Len(alerts')].type = "restart_healed"

\* the row stored under n is present and running, and its latest restart
\* event, if it has one, is older than the window at time t
Quiet(n, t) ==
    /\ n \in DOMAIN containers
    /\ containers[n].present
    /\ containers[n].status = "running"
    /\ HasRestart(events, containers[n].id)
          => t - LatestRestart(events, containers[n].id) > Window

\* the row stored under n is flagged restart_loop with streak k while the
\* scanner runs, and is present, running and without a recent restart event
Stuck(n, k) ==
    /\ phase = "run"
    /\ Quiet(n, now)
    /\ containers[n].loop
    /\ containers[n].streak = k

\* the scanner has healed the row stored under n, which had streak k
Healed(n, k) ==
    /\ n \in DOMAIN containers
    /\ ~containers[n].loop
    /\ containers[n].streak = 0
    /\ containers[n].lsince = ZeroTime
    /\ alerts # <<>>
    /\ LET a == alerts[Len(alerts)]
       IN  /\ a.type = "restart_healed" /\ a.sev = "green"
           /\ a.pk = containers[n].id /\ a.count = k

\* C4: a container flagged restart_loop (streak k) that is present, running
\* and has had no restart event for more than W is eventually healed by the
\* scanner (restart_loop unset, streak 0, restart_loop_since cleared, a green
\* restart_healed alert with restart_count = k), unless it stops being
\* present, running or free of recent restarts first, or the process stops;
\* the in-memory tracker plays no part in it.
C4_EventuallyHealed ==
    \A n \in Names, k \in 0..MaxStreak :
        Stuck(n, k) ~> (Healed(n, k) \/ ~Quiet(n, now) \/ phase = "boot")

\* C4: a container that entered the loop on T restarts, saw no other event
\* and was healed by the scanner, the alert carrying the streak it had
C4_HealedWithoutTracker ==
    \E n \in Names :
        /\ Healed(n, Threshold)
        /\ steps = LoopSteps
        /\ Cardinality({i \in DOMAIN events : events[i].type = "restart"}) = Threshold
        /\ Cardinality({i \in DOMAIN alerts : alerts[i].type = "restart_loop"}) = 1
        /\ \A i \in DOMAIN events : events[i].type = "restart"

\* C5: whenever the heal scanner persists a restart_healed alert and clears
\* restart_loop, the container is, at the moment of that write, present and
\* running and its latest restart event (if any) is older than W.
C5_HealOnlyWhenQuiet ==
    [][HealedStep => Quiet(heal.cur, now)]_vars

\* C6: while events are processed, restart_loop of a container with an
\* auto-restart policy goes from true to false only in a step of the heal
\* scanner, which persists a restart_healed alert with it.
C6_OnlyHealClearsLoop ==
    [][\A c \in Cids :
          LET n == world[c].name
              n2 == world'[c].name
          IN  (/\ phase = "run" /\ phase' = "run"
               /\ Live(c) /\ world[c].auto
               /\ n \in DOMAIN containers /\ containers[n].loop
               /\ ~(n2 \in DOMAIN containers' /\ containers'[n2].loop))
              => HealedStep]_vars

\* C10: CREATED for a name stored with another engine id adds exactly one
\* blue alert: image_changed when the image differs from the stored one,
\* recreated when it does not.
C10_OneRecreateAlert ==
    [][\A c \in Cids :
          LET n == world'[c].name
          IN  (/\ world[c].st = "new" /\ world'[c].st = "live"
               /\ n \in DOMAIN containers /\ containers[n].cid # c
               /\ events' # events)
              => LET new == Added(alerts, alerts')
                     blue == {i \in DOMAIN new : new[i].sev = "blue"}
                 IN  /\ Cardinality(blue) = 1
                     /\ \A i \in blue :
                           new[i].type = IF containers[n].image # world'[c].image
                                         THEN "image_changed" ELSE "recreated"]_vars

\* a step in which record(reply'.name, now) was called
RecordStep == steps' = steps + 1 /\ reply'.op = "record"

\* C7, as the code has it: record reports entered_loop exactly when the
\* count of timestamps inside the window has reached the threshold and no
\* entry has been reported for the name since the last mark_healed or reset
\* (the loop flag is not set); so every record after an entry reports false
\* until the name is cleared, and the first record that reaches the
\* threshold after a clear reports true again.
C7_EnteredOncePerEpisode ==
    [][RecordStep =>
         LET n == reply'.name
         IN  /\ reply'.entered <=> (~tloop[n] /\ Len(tdata'[n]) >= Threshold)
             /\ reply'.entered => tloop'[n]
             /\ tloop[n] => tloop'[n]]_vars

\* C7: a name for which an entry was reported, then cleared, then reported again
C7_EnteredAgainAfterClear ==
    reply.op = "record" /\ reply.entered /\ reply.hits[reply.name] = 2

\* C7 as worded: one report for each crossing of the threshold, a crossing
\* being a record that takes the count in the window from below T to T
C7_EnteredOncePerCrossing ==
    [][RecordStep =>
         LET n == reply'.name
         IN  reply'.entered <=>
                (Len(tdata[n]) < Threshold /\ Len(tdata'[n]) >= Threshold)]_vars

\* a step in which CREATED was handled for container c under a name that is
\* stored with another engine id (a recreate)
RecreateStep(c) ==
    /\ world[c].st = "new" /\ world'[c].st = "live"
    /\ world'[c].name \in DOMAIN containers
    /\ containers[world'[c].name].cid # c
    /\ events' # events

\* C11: while no container is renamed, a stored name keeps its row and the
\* row keeps the surrogate id of its first insert through every upsert,
\* event, alert and change of engine id; and a recreate leaves registered_at
\* as it was while the row takes the new engine id and image.
C11_StableIdAndRegistered ==
    [][/\ \A n \in DOMAIN containers :
             n \in DOMAIN containers' /\ containers'[n].id = containers[n].id
       /\ \A c \in Cids :
             RecreateStep(c) =>
                LET n == world'[c].name
                IN  /\ containers'[n].registered = containers[n].registered
                    /\ containers'[n].cid = c
                    /\ containers'[n].image = world'[c].image]_vars

\* C11: a name recreated with another image at a later time than it was
\* registered: the row has the second engine id and image, its first
\* surrogate id and registered_at
C11_RecreatedLater ==
    \E n \in DOMAIN containers :
        /\ containers[n].cid = 2 /\ containers[n].id = 1
        /\ containers[n].image = "i2"
        /\ world[2].created > containers[n].registered
        /\ \E i \in DOMAIN events :
              events[i].type = "image_changed" /\ events[i].pk = 1 /\ events[i].cid = 2

\* the record (an event or an alert) points at a stored row that has the
\* record's container name
Linked(r) ==
    \E n \in DOMAIN containers : containers[n].id = r.pk /\ n = r.name

\* C12: every persisted event and every persisted alert has a container_pk
\* that is the surrogate id of a stored container whose name is the
\* record's container name, after any sequence of reducer actions (renames
\* with and without a collision among them) and after a restart of the
\* process.
C12_RecordsLinked ==
    /\ \A i \in DOMAIN events : Linked(events[i])
    /\ \A i \in DOMAIN alerts : Linked(alerts[i])

\* a step in which RENAME(old -> new) was handled for container c while rows
\* were stored under both names (a collision)
CollisionStep(c) ==
    /\ Live(c) /\ world'[c].name # world[c].name
    /\ world[c].name \in DOMAIN containers
    /\ world'[c].name \in DOMAIN containers
    /\ events' # events

\* C13: on RENAME(old -> new) with a row already stored at new, every event
\* and every alert that had container_pk = old's surrogate id has
\* container_pk = new's surrogate id afterwards, and old's row has
\* present = false.
C13_CollisionRepoints ==
    [][\A c \in Cids :
          CollisionStep(c) =>
             LET oid == containers[world[c].name].id
                 nid == containers[world'[c].name].id
             IN  /\ \A i \in DOMAIN events :
                       events[i].pk = oid => events'[i].pk = nid
                 /\ \A i \in DOMAIN alerts :
                       alerts[i].pk = oid => alerts'[i].pk = nid
                 /\ ~containers'[world[c].name].present]_vars

\* C14: on a rename collision a -> b the surviving row b takes the renamed
\* container's engine container_id and keeps the registered_at that row b
\* had before the rename.
C14_CollisionKeepsRegistered ==
    [][\A c \in Cids :
          CollisionStep(c) =>
             LET b == world'[c].name
             IN  /\ containers'[b].cid = c
                 /\ containers'[b].registered = containers[b].registered]_vars

\* the records a step has appended to a log
AddedIn(log0, log1) == {log1[i] : i \in (DOMAIN log1) \ (DOMAIN log0)}

\* container c was renamed onto a stored name b: row b carries c's engine
\* id, and so does the absent row a it was renamed from
Collided(cs, c, a, b) ==
    /\ a \in DOMAIN cs /\ b \in DOMAIN cs /\ a # b
    /\ cs[b].cid = c /\ cs[a].cid = c /\ ~cs[a].present

\* C15: after a rename collision a -> b, the renamed event and every later
\* event or alert emitted with that engine container id is persisted under
\* b (b's name and b's surrogate id), never under the absent row a.
C15_AfterCollisionUnderNew ==
    [][\A c \in Cids :
          LET b == world'[c].name
          IN  (world'[c].st = "live" /\ \E a \in Names : Collided(containers', c, a, b))
              => \A r \in AddedIn(events, events') \cup AddedIn(alerts, alerts') :
                    r.cid = c => r.name = b /\ r.pk = containers'[b].id]_vars

\* C16: on a rename collision whose target row is in a restart loop, the row
\* at the new name has restart_loop = true, the target's restart_loop_since
\* and a restart_streak not below the target's; and when the target row is
\* unhealthy, the row at the new name is unhealthy with the target's
\* unhealthy_since.
C16_CollisionKeepsBadState ==
    [][\A c \in Cids :
          CollisionStep(c) =>
             LET target == containers[world'[c].name]
                 row == containers'[world'[c].name]
             IN  /\ target.loop =>
                       /\ row.loop
                       /\ row.lsince = target.lsince
                       /\ row.streak >= target.streak
                 /\ target.health = "unhealthy" =>
                       /\ row.health = "unhealthy"
                       /\ row.usince = target.usince]_vars

\* C17: Load leaves every event row with its container name and engine id,
\* and with container_pk = the surrogate id of the container that has the
\* row's container name (an event seeded with the container_pk of X but the
\* name and engine id of Y ends with Y's surrogate id).
C17_LoadRepairsEvents ==
    [][(phase = "down" /\ phase' = "boot") =>
          \A i \in DOMAIN events :
              /\ i \in DOMAIN events'
              /\ events'[i].name = events[i].name
              /\ events'[i].cid = events[i].cid
              /\ events[i].name \in DOMAIN containers'
                    => events'[i].pk = containers'[events[i].name].id]_vars

\* the one record an emit has appended to the log, under row m
PersistedUnder(log0, log1, cid, m) ==
    /\ Len(log1) = Len(log0) + 1
    /\ log1[Len(log1)].cid = cid
    /\ log1[Len(log1)].name = m
    /\ log1[Len(log1)].pk = containers[m].id

\* where a record emitted with engine id cid and container name name must
\* end: under a stored row with that engine id if there is one, whatever
\* the name given; else under the row stored at the name; else nowhere
EmittedRight(log0, log1, cid, name) ==
    LET byId == {m \in DOMAIN containers : containers[m].cid = cid}
    IN  IF byId # {} THEN \E m \in byId : PersistedUnder(log0, log1, cid, m)
        ELSE IF name \in DOMAIN containers THEN PersistedUnder(log0, log1, cid, name)
        ELSE log1 = log0

\* the rows without their last_event_id, which AddEvent moves
ButLastEvent(cs) == [n \in DOMAIN cs |-> asCached(cs[n])]

StopCalls ==
    {<<"stop", e>> : e \in ExitCodes}
        \cup {<<"die", "nonzero">>, <<"restart", NoExit>>, <<"oom", NoExit>>}

\* the states STOPPED or RESTART_LIKE may leave for container c
StopOutcomes(c, call, ins) ==
    IF call[1] = "stop"
    THEN handleStop(Mon, world[c].name, c, call[2], ins, now)
    ELSE handleRestartLike(Mon, world[c].name, c, call[1], call[2], ins, now)

\* C19: STOPPED and RESTART_LIKE persist a failure_no_restart alert (red,
\* with the exit code) exactly when the inspect succeeded, the exit code is
\* known and non-zero, the container has no auto-restart policy and the
\* reason is not oom, and then exactly one; a die with a non-zero exit code
\* of such a container, when it is stored, also persists exactly one restart
\* event with that exit code.
C19_FailureNoRestart ==
    \A c \in Cids, call \in StopCalls : \A ins \in Inspects(EnvFail, world, c) :
        (phase = "run" /\ Live(c)) =>
            \A M2 \in StopOutcomes(c, call, ins) :
                LET newAl == Added(alerts, M2.al)
                    newEv == Added(events, M2.ev)
                    fails == OfType(newAl, {"failure_no_restart"})
                    due == /\ ins.ok /\ call[2] = "nonzero"
                           /\ ~hasAutoRestartPolicy(ins) /\ call[1] # "oom"
                IN  /\ Cardinality(fails) = (IF due THEN 1 ELSE 0)
                    /\ \A i \in fails :
                          /\ newAl[i].sev = "red" /\ newAl[i].exit = call[2]
                          /\ newAl[i].cid = c
                    /\ (due /\ call[1] = "die" /\ Targets(containers, c, world[c].name) # {})
                          => /\ Cardinality(OfType(newEv, {"restart"})) = 1
                             /\ \A i \in OfType(newEv, {"restart"}) :
                                   newEv[i].exit = call[2] /\ newEv[i].reason = "die"

\* C19: a stored container without restart policy died with a non-zero exit
\* code: one restart event with the exit code, one failure_no_restart alert
C19_DiedWithoutPolicy ==
    \E c \in Cids :
        /\ Live(c) /\ ~world[c].auto
        /\ Len(events) = 1 /\ Len(alerts) = 1
        /\ events[1].type = "restart" /\ events[1].reason = "die"
        /\ events[1].exit = "nonzero" /\ events[1].cid = c
        /\ alerts[1].type = "failure_no_restart" /\ alerts[1].sev = "red"
        /\ alerts[1].exit = "nonzero" /\ alerts[1].cid = c

\* C20: a restart-like event for a container whose inspect reports no
\* auto-restart policy leaves the tracker without timestamps and without
\* loop flag for its name and the stored row with restart_loop = false,
\* whatever they were before, and persists no restart_loop alert; and no
\* restart_loop alert is ever persisted with the engine id of a container
\* without such a policy.
C20_NoPolicyNoLoop ==
    /\ \A i \in DOMAIN alerts :
          alerts[i].type = "restart_loop" => world[alerts[i].cid].auto
    /\ \A c \in Cids, reason \in Reasons : \A ins \in Inspects(EnvFail, world, c) :
          LET n == world[c].name
          IN  (phase = "run" /\ Live(c) /\ ins.ok /\ ~ins.auto)
              => \A M2 \in handleRestartLike(Mon, n, c, reason,
                                            IF reason = "die" THEN "nonzero" ELSE NoExit,
                                            ins, now) :
                    /\ M2.td[n] = <<>>
                    /\ ~M2.tl[n]
                    /\ n \in DOMAIN M2.cs /\ ~M2.cs[n].loop
                    /\ OfType(Added(alerts, M2.al), {"restart_loop"}) = {}

\* C20: a container without restart policy, created under a name whose row
\* was in a restart loop, after a restart-like event: the tracker holds
\* nothing for the name and the row is out of the loop
C20_NoPolicyAfterLoop ==
    \E c \in Cids :
        LET n == world[c].name
        IN  /\ Live(c) /\ ~world[c].auto
            /\ n \in DOMAIN containers /\ containers[n].cid = c
            /\ ~containers[n].loop
            /\ tdata[n] = <<>> /\ ~tloop[n]
            /\ events # <<>>
            /\ events[Len(events)].type = "restart" /\ events[Len(events)].cid = c
            /\ \E i \in DOMAIN alerts :
                  /\ alerts[i].type = "restart_loop" /\ alerts[i].pk = containers[n].id
                  /\ alerts[i].cid # c

\* the calls of handleEvent the next message may lead to: the message and the
\* result of the inspect (create: of a container the engine has just made)
FrameCalls ==
    UNION { ({<<m, ins>> : m \in Msgs(EnvFrame, c), ins \in Inspects(EnvFrame, world, c)}
             \cup {<<Message("start", world[c].name, c, NoExit, "", ""), ins>>
                     : ins \in Inspects(EnvFrame, [world EXCEPT ![c].started = now], c)})
            : c \in {x \in Cids : Live(x)} }
    \cup
    UNION { {<<Message("create", n, c, NoExit, "", ""), ins>>
              : ins \in Inspects(EnvFrame,
                                 [world EXCEPT ![c] = [NewContainer EXCEPT
                                     !.st = "live", !.name = n, !.auto = auto,
                                     !.created = now]], c)}
            : c \in {x \in Cids : world[x].st = "new"}, n \in Names \ LiveNames,
              auto \in BOOLEAN }

\* C21: a message adds a timestamp to the restart tracker only when it is a
\* die with a non-zero exit code, a restart or an oom and the inspect reports
\* an auto-restart policy, and then for its own name; kill, stop, die with
\* exit code 0 or none, create, start and health_status never make the
\* tracker's list of any name longer; and kill persists one signal event for
\* the stored container (none when no row is found for it), no alert, and
\* leaves the tracker and, but for last_event_id, the rows as they were.
C21_OnlyRestartLikeCounts ==
    phase = "run" =>
    \A call \in FrameCalls : \A M2 \in handleEvent(Mon, call[1], call[2], now) :
        LET msg == call[1]
            ins == call[2]
            due == /\ \/ msg.action \in {"restart", "oom"}
                      \/ msg.action = "die" /\ msg.exit = "nonzero"
                   /\ ins.ok /\ ins.auto
        IN  /\ \A n \in Names :
                  Len(M2.td[n]) > Len(tdata[n]) => due /\ n = msg.name
            /\ due => /\ Len(M2.td[msg.name]) = Len(tdata[msg.name]) + 1
                      /\ M2.td[msg.name][Len(M2.td[msg.name])] = now
            /\ msg.action = "kill" =>
                  /\ M2.al = alerts /\ ButLastEvent(M2.cs) = ButLastEvent(containers)
                  /\ M2.td = tdata /\ M2.tl = tloop
                  /\ IF Targets(containers, msg.id, msg.name) = {}
                     THEN M2.ev = events
                     ELSE /\ Len(M2.ev) = Len(events) + 1
                          /\ M2.ev[Len(M2.ev)].type = "signal"
                          /\ M2.ev[Len(M2.ev)].cid = msg.id

\* C21: an auto-restart container died once with a non-zero exit code, was
\* then sent a signal and then stopped: one timestamp in the tracker, one
\* signal event, no alert
C21_KilledAndStoppedAfterRestart ==
    \E c \in Cids :
        /\ Live(c) /\ world[c].auto
        /\ Len(tdata[world[c].name]) = 1
        /\ Len(events) = 3 /\ alerts = <<>>
        /\ events[1].type = "restart" /\ events[1].reason = "die"
        /\ events[2].type = "signal" /\ events[2].cid = c
        /\ events[3].type = "stopped"

\* the informational event of an action
infoType(msg) ==
    CASE msg.action = "create" -> "created"
      [] msg.action = "start" -> "started"
      [] msg.action = "stop" -> "stopped"
      [] msg.action = "die" -> IF msg.exit = "nonzero" THEN "restart" ELSE "stopped"
      [] msg.action \in {"restart", "oom"} -> "restart"
      [] msg.action = "kill" -> "signal"
      [] msg.action = "rename" -> "renamed"
      [] OTHER -> ""

\* C22: for every create, start, stop, die, restart, oom and kill message
\* for a container that is stored, the informational event of the action
\* (created, started, stopped, restart, signal) is persisted with the
\* container's engine id, whether the inspect succeeds or fails.
C22_EventDespiteInspectFailure ==
    phase = "run" =>
    \A call \in FrameCalls : \A M2 \in handleEvent(Mon, call[1], call[2], now) :
        LET msg == call[1]
            new == Added(events, M2.ev)
        IN  (infoType(msg) # "" /\ Targets(containers, msg.id, msg.name) # {})
            => \E i \in DOMAIN new : new[i].type = infoType(msg) /\ new[i].cid = msg.id

\* C23: a restart-like event whose inspect fails leaves the tracker's
\* timestamps and loop flag for the name in place, and a stored
\* restart_loop = true with its streak is not cleared by it.
C23_FailedInspectKeepsLoop ==
    phase = "run" =>
    \A c \in Cids, reason \in Reasons :
        LET n == world[c].name
        IN  Live(c) =>
            \A M2 \in handleRestartLike(Mon, n, c, reason,
                                        IF reason = "die" THEN "nonzero" ELSE NoExit,
                                        FailedInspect, now) :
                /\ tdata[n] # <<>> => M2.td[n] # <<>>
                /\ tloop[n] => M2.tl[n]
                /\ (n \in DOMAIN containers /\ containers[n].loop)
                      => M2.cs[n].loop /\ M2.cs[n].streak >= containers[n].streak

\* the value is unset, or the greatest id among the events of the row pk
LatestOrUnset(v, pk) ==
    v = 0 \/ (\E i \in DOMAIN events : events[i].pk = pk /\ i = v
                  /\ \A j \in DOMAIN events : events[j].pk = pk => j <= i)

\* C24: in every reachable state, with the reducer and the heal scanner
\* interleaved in any way, each container's last_event_id, in the cache and
\* in the table, is unset or the greatest id among the events whose
\* container_pk is that container's.
C24_LastEventIdLatest ==
    \A n \in DOMAIN containers :
        /\ LatestOrUnset(containers[n].last, containers[n].id)
        /\ LatestOrUnset(containers[n].lastdb, containers[n].id)

\* C25: ListEvents, ListAllEvents and ListAllAlerts return rows in strictly
\* descending id order, only rows with id < before_id (from the newest when
\* before_id <= 0), at most limit rows (the default page size when limit <=
\* 0); and paging with before_id set to the smallest id of the previous page
\* returns every row that was listed below the first cursor at the first
\* call exactly once, whatever is appended between the calls.
C25_PagesDescendOnce ==
    reply.op # "" =>
        LET page == reply.page
            seen == reply.seen
        IN  /\ \A i \in DOMAIN page :
                  /\ i > 1 => page[i - 1].id > page[i].id
                  /\ reply.before <= 0 \/ page[i].id < reply.before
            /\ Len(page) <= (IF reply.limit <= 0 THEN DefaultLimit ELSE reply.limit)
            /\ \A i, j \in DOMAIN seen : seen[i] = seen[j] => i = j
            /\ \A i \in DOMAIN seen : seen[i] \in reply.first
            /\ page = <<>> => {seen[i] : i \in DOMAIN seen} = reply.first

\* C25: a client has paged through three rows one at a time to the end while
\* a row was appended to the table after its first call
C25_PagedWhileAppended ==
    /\ reply.op \in {"ListAllEvents", "ListAllAlerts"}
    /\ reply.page = <<>> /\ reply.limit = 1 /\ reply.calls = 4
    /\ reply.from <= 0 /\ reply.seen = <<3, 2, 1>>
    /\ Len(IF reply.op = "ListAllAlerts" THEN alerts ELSE events) = 4

\* C26: for every event e, AddEvent(e) followed by ListAllEvents(0, n) with
\* n >= 1 returns as first row an event with the id AddEvent returned and
\* the field values of e (container_pk, container name, container_id, type,
\* timestamp, reason, exit_code).
C26_RoundTripIdentical ==
    \A e \in PageEvents, n \in 1..DefaultLimit :
        LET table == AddRecord(events, e)
            page == ListAllEvents(table, 0, n)
        IN  /\ page # <<>>
            /\ page[1] = [e EXCEPT !.id = Len(table)]

\* a step in which destroy (remove, rm) was handled for container c
AbsentStep(c) == world[c].st = "live" /\ world'[c].st = "gone"

\* C27: no step removes a container row (a surrogate id stays stored) or an
\* event; destroy (remove, rm) only sets present = false on the row of the
\* name, which stays retrievable by that name; and ListContainers returns
\* exactly the cached rows with present = true.
C27_NothingRemoved ==
    [][/\ \A n \in DOMAIN containers :
             \E m \in DOMAIN containers' : containers'[m].id = containers[n].id
       /\ \A i \in DOMAIN events :
             i \in DOMAIN events' /\ events'[i].id = events[i].id
       /\ \A c \in Cids :
             AbsentStep(c) =>
                /\ DOMAIN containers' = DOMAIN containers
                /\ \A n \in DOMAIN containers :
                      containers'[n] =
                         IF n = world[c].name THEN [containers[n] EXCEPT !.present = FALSE]
                         ELSE containers[n]
                /\ events' = events /\ alerts' = alerts
       /\ \A r \in ListContainers(containers') : r.present
       /\ \A n \in DOMAIN containers' :
             containers'[n].present <=> containers'[n] \in ListContainers(containers')]_vars

\* C27: a container with a persisted event was destroyed: its row is stored
\* under its name with present = false, its event is in the table, and
\* ListContainers returns the other container only
C27_DestroyedStillStored ==
    \E c \in Cids :
        /\ world[c].st = "gone"
        /\ world[c].name \in DOMAIN containers
        /\ containers[world[c].name].cid = c
        /\ ~containers[world[c].name].present
        /\ \E i \in DOMAIN events : events[i].pk = containers[world[c].name].id
        /\ Cardinality(ListContainers(containers)) = 1
        /\ Cardinality(DOMAIN containers) = 2

\* C28: when startup reconciliation has run, every stored container has
\* present = true exactly when its name is in the engine's list of
\* containers (stopped ones included): a tracked name that is not listed is
\* present = false, an absent name that is listed is present = true; and no
\* tracked name is lost.
C28_PresentIffListed ==
    [][(phase = "boot" /\ phase' = "run") =>
          /\ \A n \in DOMAIN containers : n \in DOMAIN containers'
          /\ \A n \in DOMAIN containers' :
                containers'[n].present <=> (n \in LiveNames)]_vars

\* C28: after a second start, the row of a name that the engine no longer
\* lists (its container was renamed unseen) is absent, and the row of a name
\* that was absent and is listed again, though not inspected, is present
C28_Reconciled ==
    /\ phase = "run" /\ steps = SyncSteps
    /\ \E c \in Cids, n \in DOMAIN containers :
          /\ Live(c) /\ containers[n].cid = c /\ world[c].name # n
          /\ n \notin LiveNames /\ ~containers[n].present
    /\ \E c \in Cids :
          /\ Live(c) /\ world[c].name \in DOMAIN containers
          /\ containers[world[c].name].cid # c
          /\ containers[world[c].name].present

\* the latest restart_loop or restart_healed alert of the row pk
LatestLoopAlert(pk) ==
    alerts[CHOOSE i \in LoopAlertIds(alerts, pk) : \A j \in LoopAlertIds(alerts, pk) : j <= i]

\* the rows reconciliation may store for a stored container with an
\* auto-restart policy that has a restart_loop or restart_healed alert
Reconciled ==
    UNION { { syncOne(containers, alerts, world[c].name, ins, now)[world[c].name]
              : ins \in {i \in Inspects(EnvRecreate, world, c) : i.ok} }
            : c \in {x \in Cids : /\ Live(x) /\ world[x].auto
                                   /\ world[x].name \in DOMAIN containers
                                   /\ LoopAlertIds(alerts,
                                                   containers[world[x].name].id) # {}} }

Ascending(sent, pk) ==
    \A i, j \in DOMAIN sent :
        (i < j /\ sent[i].pk = pk /\ sent[j].pk = pk) => sent[i].id < sent[j].id

\* C30: for each container, a subscriber receives the broadcast events in
\* increasing order of event id and the broadcast alerts in increasing order
\* of alert id, also while the heal task emits a restart_healed alert next to
\* the reducer.
C30_BroadcastInWriteOrder ==
    \A n \in DOMAIN containers :
        /\ Ascending(wire.ev, containers[n].id)
        /\ Ascending(wire.al, containers[n].id)

\* C31: every update a subscriber receives carries at most one of event and
\* alert, and the update that carries neither (the one broadcast for a
\* destroyed container) has as its container part the snapshot of the
\* stored container as it is at that moment, with present = false.
C31_UpdateIsSnapshot ==
    [][\A n \in Names :
          wire'.up[n] # wire.up[n] =>
             LET u == wire'.up[n][1]
             IN  /\ u.event = 0 \/ u.alert = 0
                 /\ (u.event = 0 /\ u.alert = 0) =>
                       /\ n \in DOMAIN containers'
                       /\ u.container = containerResponse(n, containers'[n])
                       /\ ~u.container.present]_vars

\* C32: once the cancellation token has fired, the reducer loop and the heal
\* task both return in the end; the reducer loop returns between two actions
\* (it handles a message whole or not at all); and once both have returned no
\* store write and no broadcast follows.
C32_TasksStopAndStayQuiet ==
    /\ (phase = "cancel") ~> (phase = "stopped")
    /\ [][~reducerRuns(phase) => steps' = steps]_vars
    /\ [][~healRuns(phase) => heal' = heal]_vars
    /\ [][phase = "stopped" =>
            (phase' = "stopped" /\ UNCHANGED <<containers, events, alerts, wire>>)]_vars

\* C32: both tasks have returned; the token fired after a container was
\* flagged restart_loop and while the heal task was writing for it, so the
\* tracker is cleared and the stored flag stands
C32_StoppedInMidScan ==
    /\ phase = "stopped"
    /\ \E n \in DOMAIN containers :
          /\ containers[n].loop /\ ~tloop[n] /\ tdata[n] = <<>>
          /\ alerts # <<>> /\ steps = 2

\* C33: when Migrate has returned, with or without an error, a version is in
\* schema_migrations if and only if every statement of its migration is
\* applied, no migration is applied in part, and a version is recorded only
\* when every lower one is.
C33_MigrationsAtomic ==
    schema.ret \in {"nil", "error"} =>
        \A v \in Versions :
            /\ exists(schema, v) <=> schema.applied[v] = Stmts
            /\ schema.applied[v] \in {{}, Stmts}
            /\ exists(schema, v) => \A w \in Versions : w < v => exists(schema, w)

\* C34: between two store operations every cached container has the
\* last_event_id of its row in the containers table (the other columns are
\* written to the cache and the table together in every operation).
C34_CacheEqualsTable ==
    \A n \in DOMAIN containers : containers[n].last = containers[n].lastdb

\* C35: the write of the heal scanner for a container changes, of the row as
\* it is stored at the time of the write, only restart_loop, restart_streak
\* and restart_loop_since: what the reducer wrote since the scanner read the
\* list stays (last_event_id, the subject of C24, is left aside).
C35_HealWriteKeepsReducerWrites ==
    [][(heal.cur # "" /\ heal'.cur = "" /\ phase' = phase
          /\ heal.cur \in DOMAIN containers) =>
            asCached(containers'[heal.cur]) = asCached(healedRow(containers[heal.cur]))]_vars

\* the columns of a container the subscribers follow
shown(r) ==
    [status |-> r.status, health |-> r.health, hstreak |-> r.hstreak,
     usince |-> r.usince, loop |-> r.loop, streak |-> r.streak, image |-> r.image]

\* C36: when the reducer has handled a stop, die, restart, oom, kill or
\* health_status message, every row the action changed in status, health
\* fields, restart_loop, restart_streak or image has been broadcast as it is
\* stored now: the last update sent under its name carries these values.
C36_StoredIsBroadcast ==
    [][(phase = "run" /\ steps' = steps + 1 /\ world' = world) =>
          \A n \in DOMAIN containers' :
              (n \notin DOMAIN containers \/ shown(containers'[n]) # shown(containers[n]))
                  => /\ wire'.up[n] # <<>>
                     /\ shown(wire'.up[n][1].container) = shown(containers'[n])]_vars

\* C37: a restart_loop alert is persisted only in a step of the reducer that
\* handles a restart-like message, and only for a container whose stored
\* restart_loop flag was false when the step began; so the flag of a
\* container was false at some point between two of its restart_loop alerts.
C37_LoopAlertOnlyWhenUnflagged ==
    [][\A a \in AddedIn(alerts, alerts') :
          a.type = "restart_loop" =>
             /\ phase = "run" /\ steps' = steps + 1
             /\ Len(events') > Len(events) /\ events'[Len(events) + 1].type = "restart"
             /\ \A n \in DOMAIN containers :
                   containers[n].id = a.pk => ~containers[n].loop]_vars

\* the restart-like calls the reducer may make next, with their outcomes:
\* <<name, row before, row after, entered>> for a stored container whose
\* restart_loop flag is true before and after
StreakCalls ==
    UNION { UNION { { <<world[c].name, containers[world[c].name], M2.cs[world[c].name],
                        recordEntered(tdata[world[c].name], tloop[world[c].name], now)>>
                      : M2 \in handleRestartLike(Mon, world[c].name, c, reason,
                                                 IF reason = "die" THEN "nonzero" ELSE NoExit,
                                                 ins, now) }
                    : ins \in Inspects(EnvStreak, world, c), reason \in Reasons }
            : c \in {x \in Cids : Live(x) /\ world[x].name \in DOMAIN containers
                                    /\ containers[world[x].name].loop} }

\* C38 as stated: while the stored restart_loop stays true, every further
\* restart-like action adds exactly one to restart_streak.
C38_StreakGrowsByOne ==
    phase = "run" =>
        \A call \in StreakCalls :
            call[3].loop => call[3].streak = call[2].streak + 1

\* C38: while the stored restart_loop stays true, a further restart-like
\* action adds one to restart_streak, unless it makes the tracker cross the
\* threshold again (or the stored streak is zero): then restart_streak is set
\* to the tracker's count.
C38_StreakGrowsOrStartsAgain ==
    phase = "run" =>
        \A call \in StreakCalls :
            call[3].loop =>
                call[3].streak = IF call[2].streak <= 0 \/ call[4]
                                 THEN Len(recordList(tdata[call[1]], now))
                                 ELSE call[2].streak + 1

\* C38: four restarts of a flagged container, the tracker emptied by a
\* process restart after the second: the fourth crosses the threshold again
\* and the streak is back at the tracker's count
C38_StreakStartedAgain ==
    /\ phase = "run" /\ Len(events) = 4 /\ Len(alerts) = 1
    /\ \E n \in DOMAIN containers :
          /\ containers[n].loop /\ containers[n].streak = Threshold
          /\ tloop[n] /\ Len(tdata[n]) = Threshold

\* C39: a stored row that is present=false becomes present=true only in a
\* step of the reducer (a message is processed) or of reconciliation, never
\* in a step of the heal scanner.
C39_AbsentUntilNextEvent ==
    [][\A n \in DOMAIN containers :
         (~containers[n].present /\ n \in DOMAIN containers' /\ containers'[n].present)
             => (steps' # steps \/ phase' # phase)]_vars

\* C40: a step in which the stored health_status of a container turns from
\* another value to unhealthy persists an unhealthy alert for that container.
C40_UnhealthyIsAlerted ==
    [][\A n \in DOMAIN containers \cap DOMAIN containers' :
         (containers[n].health # "unhealthy" /\ containers'[n].health = "unhealthy")
             => \E a \in AddedIn(alerts, alerts') :
                    a.type = "unhealthy" /\ a.pk = containers'[n].id]_vars

====
